---------------------------- MODULE Spec2Model ----------------------------
(***************************************************************************)
(* A model of the Dynamic Import Resolution Engine of APTScout             *)
(* (src/ghidra_scripts/aptscout.py, class DynamicImportsEnumerator).       *)
(*                                                                         *)
(* Strings are sequences of one-character strings, so that lower-casing,   *)
(* suffix tests and substring tests are computed, not assumed.  Python's   *)
(* None is the value None below, which is no string of characters.         *)
(***************************************************************************)
EXTENDS Integers, Sequences, FiniteSets, TLC

VARIABLES
    program,          \* currentProgram: its functions, their code, the iteration order
    conv,             \* the calling convention of each function (Function.setCallingConvention)
    api_db_arg,       \* the /apidb script argument handed to the constructor
    pc,               \* where the script stands
    run,              \* 1 for the first crawl, 2 for a repeated crawl
    todo,             \* the functions calling GetProcAddress still to be visited
    sites,            \* the call sites of the function being visited still to be analysed
    decompiled_functions, \* self.decompiled_functions: function name -> cache entry
    decompiler_calls, \* how often the decompiler was invoked, per function
    visited,          \* the call sites analysed in this crawl, with what was parsed from them
    first_result,     \* the ApiDict the first crawl ended with
    api_db_path,      \* self.api_db_path: None, or the path of an existing file
    db_file,          \* the content of the database file (api name -> list of dlls)
    defined_strings,  \* DefinedDataIterator.definedStrings(currentProgram)
    api_db,           \* self.api_db: [loaded |-> FALSE] or [loaded |-> TRUE, map |-> ...]
    db_reads,         \* how many times the database file was opened and read
    api_dict,         \* the ApiDict being filled: dll key -> set of api names
    last,             \* the latest __update_api_dict call: its arguments and the dict before it
    stack,            \* the calls in progress below crawl_dynamic_imports, innermost last
    returned,         \* what the call that ended last returned to its caller
    arguments,        \* the text between the parentheses of a call being read
    fragments,        \* the arguments that text was split into
    expressions,      \* the StringParam objects built from them so far
    function_symbols, \* getSymbols(function.getName(), None): each symbol with its references
    refs_left,        \* the references __get_functions_containing_refs has still to read
    callers_set,      \* its set "callers" as filled so far, and what was returned
    locating          \* where the search for the calling functions stands

mergeVars == <<api_db, db_reads, api_dict, last>>
envVars == <<api_db_path, db_file, defined_strings>>
progVars == <<program, api_db_arg>>
resolveVars == <<stack, returned>>
classifyVars == <<arguments, fragments, expressions>>
refVars == <<function_symbols, refs_left, callers_set, locating>>
crawlVars == <<conv, pc, run, todo, sites, decompiled_functions, decompiler_calls,
               visited, first_result>>
vars == <<program, conv, api_db_arg, pc, run, todo, sites, decompiled_functions,
          decompiler_calls, visited, first_result,
          api_db_path, db_file, defined_strings, api_db, db_reads, api_dict, last,
          stack, returned, arguments, fragments, expressions,
          function_symbols, refs_left, callers_set, locating>>

-----------------------------------------------------------------------------
(* Strings *)

None == <<"None">>

UpperChars == <<"A","B","C","D","E","F","G","H","I","J","K","L","M",
                "N","O","P","Q","R","S","T","U","V","W","X","Y","Z">>
LowerChars == <<"a","b","c","d","e","f","g","h","i","j","k","l","m",
                "n","o","p","q","r","s","t","u","v","w","x","y","z">>

\* str.lower() on one character
LowerChar(c) ==
    IF \E i \in DOMAIN UpperChars : UpperChars[i] = c
    THEN LowerChars[CHOOSE i \in DOMAIN UpperChars : UpperChars[i] = c]
    ELSE c

\* str.lower()
Lower(s) == [i \in DOMAIN s |-> LowerChar(s[i])]

\* str.endswith(suffix)
EndsWith(s, suffix) ==
    /\ Len(suffix) <= Len(s)
    /\ SubSeq(s, Len(s) - Len(suffix) + 1, Len(s)) = suffix

\* sub occurs in s at position i
SubAt(s, i, sub) ==
    /\ i >= 1
    /\ i + Len(sub) - 1 <= Len(s)
    /\ SubSeq(s, i, i + Len(sub) - 1) = sub

\* Python's "sub in s" on strings
Contains(s, sub) == \E i \in 1..(Len(s) + 1) : SubAt(s, i, sub)

dll_ext == <<".","d","l","l">>
drv_ext == <<".","d","r","v">>
ocx_ext == <<".","o","c","x">>

-----------------------------------------------------------------------------
(* The Expression Classifier: class StringParam *)

quote == "\""

IsWs(c) == c = " " \/ c = "\t"
IsLetter(c) == \E i \in DOMAIN UpperChars : UpperChars[i] = c \/ LowerChars[i] = c
IsDigit(c) == c \in {"0","1","2","3","4","5","6","7","8","9"}
IsIdentStart(c) == IsLetter(c) \/ c = "_"
IsIdentChar(c) == IsIdentStart(c) \/ IsDigit(c)

\* the character at position i, "" past either end
At(s, i) == IF i \in DOMAIN s THEN s[i] ELSE ""

Min(S) == CHOOSE x \in S : \A y \in S : x <= y
Max(S) == CHOOSE x \in S : \A y \in S : y <= x

\* str.strip()
Strip(s) ==
    LET keep == {i \in DOMAIN s : ~IsWs(s[i])}
    IN  IF keep = {} THEN <<>> ELSE SubSeq(s, Min(keep), Max(keep))

\* cast_regex up to its placeholder: \*?[ \t]?(?:\(.+?\))?[ \t]?
\* the positions at which the placeholder may start
CastPrefixEnds(s) ==
    LET p1 == IF At(s, 1) = "*" THEN 2 ELSE 1
        A == {p1} \cup (IF IsWs(At(s, p1)) THEN {p1 + 1} ELSE {})
        B == A \cup {k + 1 : k \in {j \in DOMAIN s :
                                      s[j] = ")" /\ \E a \in A : At(s, a) = "(" /\ j > a + 1}}
    IN  B \cup {b + 1 : b \in {x \in B : IsWs(At(s, x))}}

\* L?\"(.+?)\" at position c: the position of the opening quote
OpeningQuote(s, c) == IF At(s, c) = "L" /\ At(s, c + 1) = quote THEN c + 1 ELSE c

\* the positions a closing quote may take for the literal opening at c
ClosingQuotes(s, c) ==
    {e \in DOMAIN s : At(s, OpeningQuote(s, c)) = quote /\ e >= OpeningQuote(s, c) + 2
                      /\ s[e] = quote}

\* the end of the identifier starting at c
IdentEnd(s, c) ==
    Max({e \in c..Len(s) : \A k \in c..e : IsIdentChar(s[k])})

\* Python's None for a StringParam-valued result
NoParam == [value |-> None, name |-> None]

\* StringParam(param): value for a C string literal, name for anything else
StringParam(param) ==
    LET Literal(c) ==
            [value |-> SubSeq(param, OpeningQuote(param, c) + 1,
                              Min(ClosingQuotes(param, c)) - 1),
             name |-> None]
        Variable(idents) ==
            [value |-> None,
             name |-> IF idents # {}
                      THEN SubSeq(param, Min(idents), IdentEnd(param, Min(idents)))
                      ELSE param]
        Matched(lits, idents) == IF lits # {} THEN Literal(Min(lits)) ELSE Variable(idents)
        From(starts) ==
            Matched({c \in starts : ClosingQuotes(param, c) # {}},
                    {c \in starts : IsIdentStart(At(param, c))})
    IN  From(CastPrefixEnds(param))

is_literal(sp) == sp.value # None

\* a whole string is one identifier: [a-zA-Z_][a-zA-Z0-9_]*
IsIdentifier(s) ==
    /\ s # <<>>
    /\ IsIdentStart(s[1])
    /\ \A i \in DOMAIN s : IsIdentChar(s[i])

-----------------------------------------------------------------------------
(* The names the model's programs, databases and string tables are built from *)

s_user32 == <<"u","s","e","r","3","2">>
s_WINSPOOL_DRV == <<"W","I","N","S","P","O","O","L",".","D","R","V">>
s_shell32_dll == <<"s","h","e","l","l","3","2",".","d","l","l">>
s_MSCOMCTL_ocx == <<"M","S","C","O","M","C","T","L",".","o","c","x">>
s_advapi32_dll == <<"a","d","v","a","p","i","3","2",".","d","l","l">>
s_kernel32_dll == <<"k","e","r","n","e","l","3","2",".","d","l","l">>
s_KernelBase_dll == <<"K","e","r","n","e","l","B","a","s","e",".","d","l","l">>
s_winspool_drv == <<"w","i","n","s","p","o","o","l",".","d","r","v">>
s_kernel32 == <<"k","e","r","n","e","l","3","2">>
s_kernelbase == <<"k","e","r","n","e","l","b","a","s","e">>
s_winspool == <<"w","i","n","s","p","o","o","l">>
s_KERNEL32_DLL == <<"K","E","R","N","E","L","3","2",".","D","L","L">>
s_kernelbase_dll == <<"k","e","r","n","e","l","b","a","s","e",".","d","l","l">>
s_Winspool_drv == <<"W","i","n","s","p","o","o","l",".","d","r","v">>
s_user32_dll == <<"u","s","e","r","3","2",".","d","l","l">>
s_CreateFileW == <<"C","r","e","a","t","e","F","i","l","e","W">>
s_OpenPrinterW == <<"O","p","e","n","P","r","i","n","t","e","r","W">>
s_IsUserAnAdmin == <<"I","s","U","s","e","r","A","n","A","d","m","i","n">>
s_GetUserNameA == <<"G","e","t","U","s","e","r","N","a","m","e","A">>
s_apidb_json == <<"a","p","i","d","b",".","j","s","o","n">>

-----------------------------------------------------------------------------
(* The API Database Disambiguator and the merge into the ApiDict:           *)
(* DynamicImportsEnumerator.__update_api_dict                               *)

EmptyDict == [k \in {} |-> {}]

NotLoaded == [loaded |-> FALSE]

\* "not self.api_db": None, or a loaded mapping that is empty
ApiDbFalsy(db) == ~db.loaded \/ DOMAIN db.map = {}

\* the tolerance turned round: ".dll" appended to the candidate, not to the string
StrMatches_Reversed(dll, defined_str) ==
    LET lower_dll == Lower(dll)
        lower_str == Lower(defined_str)
    IN  lower_dll = lower_str \/ lower_dll \o dll_ext = lower_str

\* the test of one candidate against one defined string
StrMatches(dll, defined_str) ==
    LET lower_dll == Lower(dll)
        lower_str == Lower(defined_str)
    IN  lower_dll = lower_str \/ lower_dll = lower_str \o dll_ext

\* the inner loop over the defined strings, left at the first match
CandidateMatched(dll, strs) == \E defined_str \in strs : StrMatches(dll, defined_str)

\* the inner loop not left at the first match: one count per matching string
dll_count_PerString(cands, strs) ==
    Cardinality({p \in (DOMAIN cands) \X strs : StrMatches(cands[p[1]], p[2])})

\* dll_count after the outer loop: one per candidate that has a match
dll_count(cands, strs) ==
    Cardinality({i \in DOMAIN cands : CandidateMatched(cands[i], strs)})

\* dll_found after the outer loop: the last candidate that has a match
dll_found(cands, strs) ==
    LET hits == {i \in DOMAIN cands : CandidateMatched(cands[i], strs)}
    IN  IF hits = {} THEN None
        ELSE cands[CHOOSE i \in hits : \A j \in hits : j <= i]

\* any match is taken: the last matching candidate wins
ChooseDll_Guess(count, found) == IF count >= 1 THEN found ELSE None

\* the decision taken after the loops
ChooseDll(count, found) == IF count = 1 THEN found ELSE None

\* the dll the database path supplies for api_name, or None
DisambiguateDll(db_map, strs, api_name) ==
    IF api_name \in DOMAIN db_map
    THEN ChooseDll(dll_count(db_map[api_name], strs), dll_found(db_map[api_name], strs))
    ELSE None

HasKnownExtension(api_dll) ==
    EndsWith(api_dll, dll_ext) \/ EndsWith(api_dll, drv_ext) \/ EndsWith(api_dll, ocx_ext)

\* the extension looked for in the name as given, before lower-casing
NormalizeDll_CaseSensitive(api_dll) ==
    IF ~HasKnownExtension(api_dll) THEN Lower(api_dll) \o dll_ext ELSE Lower(api_dll)

\* lower-casing, then ".dll" appended when no known extension ends the name
NormalizeDll(api_dll) ==
    LET lowered == Lower(api_dll)
    IN  IF ~HasKnownExtension(lowered) THEN lowered \o dll_ext ELSE lowered

\* api_dict[api_dll] = {api_name}: the names filed before are dropped
AddApi_Replace(dict, api_dll, api_name) ==
    [k \in DOMAIN dict \cup {api_dll} |-> IF k = api_dll THEN {api_name} ELSE dict[k]]

\* api_dict[api_dll].add(api_name), the key created when missing
AddApi(dict, api_dll, api_name) ==
    IF api_dll \in DOMAIN dict
    THEN [dict EXCEPT ![api_dll] = @ \cup {api_name}]
    ELSE dict @@ (api_dll :> {api_name})

\* whether a call opens and reads the database file
ReadsDbFile(db, api_dll) == api_dll = None /\ api_db_path # None /\ ApiDbFalsy(db)

\* self.api_db once the call has passed the loading step
DbAfterLoad(db, api_dll) ==
    IF ReadsDbFile(db, api_dll) THEN [loaded |-> TRUE, map |-> db_file] ELSE db

\* api_dll as it stands at "if api_dll is not None"
ResolvedDll(db, api_dll, api_name) ==
    IF api_dll = None /\ api_db_path # None
    THEN DisambiguateDll(DbAfterLoad(db, api_dll).map, defined_strings, api_name)
    ELSE api_dll

\* the enumerator's merge state as one value
MergeState == [api_db |-> api_db, db_reads |-> db_reads, api_dict |-> api_dict, last |-> last]

\* one call of __update_api_dict(api_dict, api_dll, api_name) from merge state st
update_api_dict(st, api_dll, api_name) ==
    LET Merged(dll) ==
            [api_db   |-> DbAfterLoad(st.api_db, api_dll),
             db_reads |-> IF ReadsDbFile(st.api_db, api_dll)
                          THEN st.db_reads + 1 ELSE st.db_reads,
             api_dict |-> IF dll # None
                          THEN AddApi(st.api_dict, NormalizeDll(dll), api_name)
                          ELSE st.api_dict,
             last     |-> [called |-> TRUE, dll |-> api_dll, api |-> api_name,
                           before |-> st.api_dict, resolved |-> dll, n |-> st.last.n + 1]]
    IN  Merged(ResolvedDll(st.api_db, api_dll, api_name))

\* the variables take the values of merge state st
SetMergeState(st) ==
    /\ api_db' = st.api_db
    /\ db_reads' = st.db_reads
    /\ api_dict' = st.api_dict
    /\ last' = st.last

-----------------------------------------------------------------------------
(* Sequences of merges: any interleaving of __update_api_dict calls on one  *)
(* enumerator, over every database file and string table of the pools.      *)

MaxLits == 2      \* defined strings in the binary
MaxMerges == 2    \* __update_api_dict calls in one behaviour

\* a database in the layout utils/apidb.py writes from a file-name keyed export list
DbWithExtensions ==
    (s_CreateFileW :> <<s_kernel32_dll, s_KernelBase_dll>>)
    @@ (s_OpenPrinterW :> <<s_winspool_drv>>)

\* a database of extension-less base names
DbBaseNames ==
    (s_CreateFileW :> <<s_kernel32, s_kernelbase>>)
    @@ (s_OpenPrinterW :> <<s_winspool>>)

DbFiles == {DbWithExtensions, DbBaseNames, EmptyDict}

StringPool == {s_KERNEL32_DLL, s_kernel32, s_kernelbase_dll, s_kernelbase,
               s_Winspool_drv, s_user32_dll}

StringTables == {t \in SUBSET StringPool : Cardinality(t) <= MaxLits}

\* dll names a structural resolution may hand to the merge
ResolvedDllPool == {s_user32, s_WINSPOOL_DRV, s_shell32_dll, s_MSCOMCTL_ocx}

ApiPool == {s_CreateFileW, s_OpenPrinterW, s_GetUserNameA}

NoCall == [called |-> FALSE, dll |-> None, api |-> None,
           before |-> EmptyDict, resolved |-> None, n |-> 0]

\* no call has returned anything that its caller still has to look at
NoReturn == [set |-> FALSE, res |-> [value |-> None, name |-> None]]

\* an enumerator that is constructed and not crawling: only its merge is exercised
NoProgram == [funcs |-> <<>>, fails |-> {}, nometa |-> {}, order |-> <<>>, size |-> 64,
              thiscall |-> {}]

\* no argument list is being read
NotClassifying ==
    /\ arguments = <<>>
    /\ fragments = <<>>
    /\ expressions = <<>>

\* no references are being read
NotLocating ==
    /\ function_symbols = <<>>
    /\ refs_left = <<>>
    /\ callers_set = {}
    /\ locating = "idle"

NotCrawling ==
    /\ program = NoProgram
    /\ api_db_arg = None
    /\ conv = <<>>
    /\ pc = "ready"
    /\ run = 0
    /\ todo = <<>>
    /\ sites = <<>>
    /\ decompiled_functions = <<>>
    /\ decompiler_calls = <<>>
    /\ visited = {}
    /\ first_result = EmptyDict
    /\ stack = <<>>
    /\ returned = NoReturn

InitMerge ==
    /\ NotCrawling
    /\ NotClassifying
    /\ NotLocating
    /\ api_db_path \in {None, s_apidb_json}
    /\ db_file \in DbFiles
    /\ defined_strings \in StringTables
    /\ api_db = NotLoaded
    /\ db_reads = 0
    /\ api_dict = EmptyDict
    /\ last = NoCall

Merge ==
    /\ last.n < MaxMerges
    /\ \E api_dll \in ResolvedDllPool \cup {None}, api_name \in ApiPool :
           SetMergeState(update_api_dict(MergeState, api_dll, api_name))
    /\ UNCHANGED <<envVars, progVars, crawlVars, resolveVars, classifyVars, refVars>>

NextMerge == Merge

SpecMerge == InitMerge /\ [][NextMerge]_vars

-----------------------------------------------------------------------------
(* Properties of the merge, checked under SpecMerge *)

\* the latest call went down the database path and found api_name listed
ViaDatabase ==
    /\ last.called
    /\ last.dll = None
    /\ api_db_path # None
    /\ api_db.loaded
    /\ last.api \in DOMAIN api_db.map

Candidates == api_db.map[last.api]

\* the candidates (by position) that some defined string matches
MatchedCandidates ==
    {i \in DOMAIN Candidates :
        \E s \in defined_strings : StrMatches(Candidates[i], s)}

\* the defined strings that match candidate i
MatchingStrings(i) == {s \in defined_strings : StrMatches(Candidates[i], s)}

\* C2: when __update_api_dict is called with an unresolved DLL, the database
\* lists candidates for the API name, and zero or at least two candidates have
\* a matching defined string, the ApiDict is left exactly as it was: no pair
\* is added by guessing among the candidates.
C2_AmbiguityNeverGuessed ==
    (ViaDatabase /\ Cardinality(MatchedCandidates) # 1) => api_dict = last.before

\* a merge has met two matching candidates and has added nothing
C2_Witness ==
    /\ ViaDatabase
    /\ Cardinality(MatchedCandidates) >= 2
    /\ api_dict = last.before

\* C3: with the DLL unresolved, the API listed under two or more candidates and
\* exactly one candidate matched by a defined string, the API is emitted under
\* that candidate's normalized name, whatever the candidate's position in the
\* list and however many defined strings match it.
C3_SingleMatchSelected ==
    (ViaDatabase /\ Len(Candidates) >= 2 /\ Cardinality(MatchedCandidates) = 1)
        => LET i == CHOOSE j \in MatchedCandidates : TRUE
               key == Lower(Candidates[i]) \o
                      (IF HasKnownExtension(Lower(Candidates[i])) THEN <<>> ELSE dll_ext)
           IN  /\ key \in DOMAIN api_dict
               /\ last.api \in api_dict[key]
               /\ api_dict = AddApi(last.before, key, last.api)

\* the second candidate of the list is the only one matched, by two defined
\* strings at once, and the API has been emitted under it
C3_Witness ==
    /\ ViaDatabase
    /\ MatchedCandidates = {2}
    /\ Cardinality(MatchingStrings(2)) = 2
    /\ last.api \in api_dict[NormalizeDll(Candidates[2])]
    /\ NormalizeDll(Candidates[2]) \notin DOMAIN last.before


\* C4 (as claimed): a candidate given as an extension-less base name counts as
\* matched by a defined string that is the same name compared without regard
\* to case, whether or not that string carries the ".dll" suffix; so when it
\* is the only candidate matched in that sense, it is the DLL selected.
C4_AsClaimed ==
    ViaDatabase =>
        LET matched == {i \in DOMAIN Candidates :
                          /\ ~HasKnownExtension(Lower(Candidates[i]))
                          /\ \E s \in defined_strings :
                                \/ Lower(s) = Lower(Candidates[i])
                                \/ Lower(s) = Lower(Candidates[i]) \o dll_ext}
        IN  (Cardinality(matched) = 1 /\ Cardinality(MatchedCandidates) <= 1)
                => last.resolved = Candidates[CHOOSE i \in matched : TRUE]

\* C4 (amended): a candidate counts as matched by a defined string that equals
\* it without regard to case, or that equals it once ".dll" is appended to the
\* string (the string lacks the suffix the candidate carries).  A candidate
\* without the suffix is matched only by the same name, never by that name
\* followed by ".dll".  The DLL selected is the single candidate matched in
\* this sense, and none when there is no such single candidate.
C4_SuffixTolerance ==
    ViaDatabase =>
        LET strip(c) == IF EndsWith(Lower(c), dll_ext)
                        THEN SubSeq(Lower(c), 1, Len(c) - Len(dll_ext))
                        ELSE Lower(c)
            matched == {i \in DOMAIN Candidates :
                          \E s \in defined_strings :
                              Lower(s) \in {Lower(Candidates[i]), strip(Candidates[i])}}
        IN  last.resolved = IF Cardinality(matched) = 1
                            THEN Candidates[CHOOSE i \in matched : TRUE]
                            ELSE None

\* a candidate carrying ".dll" has been selected on the strength of a defined
\* string that lacks the suffix
C4_Witness ==
    /\ ViaDatabase
    /\ last.resolved = s_kernel32_dll
    /\ defined_strings = {s_kernel32}
    /\ s_kernel32_dll \in DOMAIN api_dict

\* C5: every key of the ApiDict is lower-case and ends in ".dll", ".drv" or
\* ".ocx"; normalizing a key again changes nothing; and the key a merge files
\* its API under is the resolved name lower-cased, with ".dll" appended exactly
\* when the lower-cased name ends in none of the three extensions.
C5_KeysNormalized ==
    /\ \A k \in DOMAIN api_dict :
          /\ k = Lower(k)
          /\ EndsWith(k, dll_ext) \/ EndsWith(k, drv_ext) \/ EndsWith(k, ocx_ext)
          /\ NormalizeDll(k) = k
    /\ (last.called /\ last.resolved # None) =>
          LET low == Lower(last.resolved)
              has == \E e \in {dll_ext, drv_ext, ocx_ext} : EndsWith(low, e)
              key == IF has THEN low ELSE low \o dll_ext
          IN  /\ key \in DOMAIN api_dict
              /\ last.api \in api_dict[key]
              /\ DOMAIN api_dict = DOMAIN last.before \cup {key}

\* "WINSPOOL.DRV" has been filed under "winspool.drv" and "user32" under
\* "user32.dll"
C5_Witness ==
    /\ DOMAIN api_dict = {s_winspool_drv, s_user32_dll}
    /\ last.called /\ last.dll = s_WINSPOOL_DRV

-----------------------------------------------------------------------------
(* Decompiled code.                                                         *)
(*                                                                          *)
(* The pseudo-C text of a function is held as its signature's parameter     *)
(* list and the sequence of its statements, each statement holding the text *)
(* fragments the engine's regular expressions capture from it:              *)
(*   lhs = LoadLibraryA(arg);      LL(lhs, arg)      loadlibrary_regex      *)
(*   lhs = rhs;                    Assign(lhs, rhs)  alias_regex(2)         *)
(*   name(p1,p2);                  Call(name, <<p1, p2>>)  function_call_regex *)
(*   GetProcAddress(h, name);      GPA(h, name)      getprocaddress_regex   *)
(*   type name;                    Decl(type, name)  this_var/local_var_regex *)
(* The fragments are character strings, matched as the expressions match.   *)

LL(lhs, arg) == [kind |-> "ll", lhs |-> lhs, arg |-> arg]
Assign(lhs, rhs) == [kind |-> "assign", lhs |-> lhs, rhs |-> rhs]
Call(function, params) == [kind |-> "call", function |-> function, params |-> params]
GPA(h, name) == [kind |-> "gpa", h |-> h, name |-> name]
Decl(type, name) == [kind |-> "decl", type |-> type, name |-> name]

\* internal_function_regex: (FUN|UndefinedFunction)_<hex digits>
InternalNames == {"FUN_1", "FUN_2", "FUN_3", "FUN_4"}
\* the string/memory copy functions call_regex matches besides internal functions
CopyNames == {"strcpy"}

\* re.escape(h_module): the handle's text, matched literally
TextPattern(text) == [kind |-> "text", text |-> text, names |-> {}, offset |-> <<>>]
\* hmodule_cast_regex around (?:names offset [^)\n\r,]*)
CastPattern(names, offset) == [kind |-> "cast", text |-> <<>>, names |-> names, offset |-> offset]

NoParenComma(s) == \A i \in DOMAIN s : s[i] \notin {")", ","}

\* the pattern, followed by \s?=, ends on the assigned-to text lhs
LhsMatches(pat, lhs) ==
    IF pat.kind = "text"
    THEN EndsWith(lhs, pat.text)
    ELSE \E n \in pat.names : \E i \in 1..Len(lhs) :
            LET key == n \o pat.offset
                j == i + Len(key) - 1
                rest == SubSeq(lhs, j + 1, Len(lhs))
            IN  /\ SubAt(lhs, i, key)
                /\ \/ NoParenComma(rest)
                   \/ /\ rest # <<>>
                      /\ rest[Len(rest)] = ")"
                      /\ NoParenComma(SubSeq(rest, 1, Len(rest) - 1))

\* alias_regex2 matches: statements "h = local_var;"
AliasMatches(pat, code) ==
    {i \in DOMAIN code : /\ code[i].kind = "assign"
                         /\ LhsMatches(pat, code[i].lhs)
                         /\ IsIdentifier(code[i].rhs)}

\* loadlibrary_regex matches: statements "h = LoadLibrary(...)"
LoadLibraryMatches(pat, code) ==
    {i \in DOMAIN code : code[i].kind = "ll" /\ LhsMatches(pat, code[i].lhs)}

\* the pattern and the code the LoadLibrary search runs on, after the alias step
AfterAlias(pat, code) ==
    LET Aliased(alias_matches) ==
            IF alias_matches # {}
            THEN [pat |-> TextPattern(code[Max(alias_matches)].rhs),
                  code |-> SubSeq(code, 1, Max(alias_matches) - 1)]
            ELSE [pat |-> pat, code |-> code]
    IN  Aliased(AliasMatches(pat, code))

\* the first assignment of the code is taken, not the one closest to the call
find_loadlibrary_assignment_First(pat, code) ==
    LET First(above, loadlibrary_matches) ==
            IF loadlibrary_matches # {}
            THEN StringParam(Strip(above[Min(loadlibrary_matches)].arg))
            ELSE NoParam
        Search(a) == First(a.code, LoadLibraryMatches(a.pat, a.code))
    IN  Search(AfterAlias(pat, code))

\* __find_loadlibrary_assignment(h_module, code)
find_loadlibrary_assignment(pat, code) ==
    LET Closest(above, loadlibrary_matches) ==
            IF loadlibrary_matches # {}
            THEN StringParam(Strip(above[Max(loadlibrary_matches)].arg))
            ELSE NoParam
        Search(a) == Closest(a.code, LoadLibraryMatches(a.pat, a.code))
    IN  Search(AfterAlias(pat, code))

\* __find_string_literal_param(params, var)
RECURSIVE StringLiteralScan(_, _, _, _, _)
StringLiteralScan(params, var, i, var_found, str_param) ==
    IF i > Len(params) THEN NoParam
    ELSE LET Step(found, sp) ==
                 IF found /\ sp # NoParam /\ is_literal(sp) THEN sp
                 ELSE StringLiteralScan(params, var, i + 1, found, sp)
         IN  IF Contains(params[i], var) THEN Step(TRUE, str_param)
             ELSE Step(var_found, StringParam(params[i]))

\* any literal of a list that holds the variable, wherever the two stand
find_string_literal_param_AnyOrder(params, var) ==
    LET lits == {i \in DOMAIN params : /\ ~Contains(params[i], var)
                                        /\ is_literal(StringParam(params[i]))}
    IN  IF lits # {} /\ \E i \in DOMAIN params : Contains(params[i], var)
        THEN StringParam(params[Min(lits)])
        ELSE NoParam

find_string_literal_param(params, var) == StringLiteralScan(params, var, 1, FALSE, NoParam)

-----------------------------------------------------------------------------
(* The program under analysis and the decompiler collaborator.              *)
(*                                                                          *)
(* program.funcs[f] is function f as decompiled under a stack convention:   *)
(* its formal parameters and its statements.  What the decompiler prints    *)
(* for f depends on f's own calling convention: under __thiscall the first  *)
(* argument is the parameter "this", and the local that stood for it is     *)
(* gone.  program.fails are the functions the decompiler fails on,          *)
(* program.nometa those whose metadata reports no parameters, and           *)
(* program.order the order in which sets of functions are iterated.         *)

s_this == <<"t","h","i","s">>
s_void == <<"v","o","i","d">>
s_int_ == <<"i","n","t"," ">>
s_hmodule_cast == <<"*","(","H","M","O","D","U","L","E"," ","*",")">>
s_unaff == <<"u","n","a","f","f">>
s_extraout == <<"e","x","t","r","a","o","u","t">>

StartsWith(s, prefix) == Len(prefix) <= Len(s) /\ SubSeq(s, 1, Len(prefix)) = prefix

Funcs == DOMAIN program.funcs

\* the statements of kind k, by position
OfKind(code, k) == {i \in DOMAIN code : code[i].kind = k}

\* this_var_regex: a declaration "void *this;" or "int *this;"
ThisDeclared(body) ==
    \E i \in OfKind(body, "decl") : body[i].type \in {"void *", "int *"} /\ body[i].name = s_this

\* the text holds a cast to HMODULE * of an expression on variable v, with at
\* least one more character (an offset) after v, as local_var_regex asks
CastUse(text, v) ==
    \E i \in DOMAIN text : \E j \in DOMAIN text :
        /\ SubAt(text, i, s_hmodule_cast)
        /\ j >= i + Len(s_hmodule_cast)
        /\ SubAt(text, j, v)
        /\ LET between == SubSeq(text, i + Len(s_hmodule_cast), j - 1)
               cast(x) == Len(x) >= 3 /\ x[1] = "(" /\ x[Len(x)] = ")"
           IN  \/ between = <<>>
               \/ cast(between)
               \/ At(between, 1) = "(" /\ (Len(between) = 1 \/ cast(Tail(between)))
        /\ At(text, j + Len(v)) \notin {"", ")", ","}

\* the text fragments of a statement in which a cast may be found
CastTexts(stmt) ==
    IF stmt.kind \in {"assign", "ll"} THEN {stmt.lhs}
    ELSE IF stmt.kind = "gpa" THEN {stmt.h}
    ELSE {}

\* the declarations local_var_regex can start from
LocalDecls(body) ==
    {i \in OfKind(body, "decl") :
        /\ body[i].type \in {"void *", "int"}
        /\ Len(body[i].name) >= 2
        /\ IsLetter(body[i].name[1])
        /\ ~StartsWith(body[i].name, s_unaff)
        /\ ~StartsWith(body[i].name, s_extraout)}

\* the statements after declaration d that cast d's variable to HMODULE *
CastUses(body, d) ==
    {u \in DOMAIN body : u > d /\ \E x \in CastTexts(body[u]) : CastUse(x, body[d].name)}

\* local_var_regex.search: the first declaration with a later cast, and that cast
LocalVarMatch(body) ==
    LET First(ds) ==
            IF ds = {} THEN [found |-> FALSE, decl |-> 0, use |-> 0]
            ELSE [found |-> TRUE, decl |-> Min(ds), use |-> Min(CastUses(body, Min(ds)))]
    IN  First({d \in LocalDecls(body) : CastUses(body, d) # {}})

\* an assignment "v = ...;" between the declaration and the cast
AssignedBetween(body, m) ==
    \E i \in (m.decl + 1)..(m.use - 1) :
        /\ body[i].kind \in {"assign", "ll"}
        /\ EndsWith(body[i].lhs, body[m.decl].name)

\* the test __fix_calling_conventions applies to a function's decompiled code
LooksLikeThiscall(body) ==
    \/ ThisDeclared(body)
    \/ LET Unassigned(m) == m.found /\ ~AssignedBetween(body, m)
       IN  Unassigned(LocalVarMatch(body))

\* text with the first occurrence of old replaced by new
Replace(text, old, new) ==
    LET at == {i \in DOMAIN text : SubAt(text, i, old)}
    IN  IF at = {} \/ old = <<>> THEN text
        ELSE SubSeq(text, 1, Min(at) - 1) \o new \o SubSeq(text, Min(at) + Len(old), Len(text))

\* the local that stands for the hidden first argument, if the code shows one
ThisLocal(body) ==
    IF ThisDeclared(body) THEN s_this
    ELSE LET Local(m) == IF m.found /\ ~AssignedBetween(body, m)
                         THEN body[m.decl].name ELSE <<>>
         IN  Local(LocalVarMatch(body))

RenameIn(stmt, old) ==
    IF stmt.kind \in {"assign", "ll"} THEN [stmt EXCEPT !.lhs = Replace(@, old, s_this)]
    ELSE IF stmt.kind = "gpa" THEN [stmt EXCEPT !.h = Replace(@, old, s_this)]
    ELSE stmt

\* function f as the decompiler prints it under __thiscall
ThisView(fn) ==
    LET Renamed(v, kept) ==
            [params |-> <<s_this>> \o fn.params,
             body |-> [i \in DOMAIN kept |-> RenameIn(kept[i], v)]]
        Without(v) ==
            Renamed(v, SelectSeq(fn.body, LAMBDA s : ~(s.kind = "decl" /\ s.name = v)))
    IN  Without(ThisLocal(fn.body))

\* the parameter list as the signature line prints it: "int a, int b", split at ","
Signature(params) ==
    IF params = <<>> THEN <<s_void>>
    ELSE [i \in DOMAIN params |-> (IF i > 1 THEN <<" ">> ELSE <<>>) \o s_int_ \o params[i]]

\* flat_decompiler.decompile(f) when it succeeds
DecompilerOutput(f) ==
    LET Printed(fn) == [sig |-> Signature(fn.params), body |-> fn.body]
    IN  Printed(IF conv[f] = "__thiscall" THEN ThisView(program.funcs[f])
                ELSE program.funcs[f])

\* function.getParameters(): the names, in ordinal order
Parameters(f) ==
    IF f \in program.nometa THEN <<>>
    ELSE IF conv[f] = "__thiscall" THEN <<s_this>> \o program.funcs[f].params
    ELSE program.funcs[f].params

-----------------------------------------------------------------------------
(* The Decompilation Cache: __decompile_function and the parameter helpers  *)

\* a statement "var = LoadLibraryA_exref;" and a call through that pointer
ExRef(var, api) == [kind |-> "exref", var |-> var, api |-> api]
ICall(lhs, via, params) == [kind |-> "icall", lhs |-> lhs, via |-> via, params |-> params]

\* the api a pointer variable was loaded with from an external-reference stub
ExRefApi(body, var) ==
    LET refs == {i \in OfKind(body, "exref") : body[i].var = var}
    IN  IF refs = {} THEN "" ELSE body[Max(refs)].api

\* the post-decompile repair: calls through such pointers rewritten to direct calls
Repair(body) ==
    [i \in DOMAIN body |->
        IF body[i].kind = "icall" /\ ExRefApi(body, body[i].via) # ""
        THEN IF ExRefApi(body, body[i].via) = "GetProcAddress"
             THEN GPA(body[i].params[1], body[i].params[2])
             ELSE LL(body[i].lhs, body[i].params[1])
        ELSE body[i]]

\* the empty text in place of the prototype
Fallback_Empty(f) == [sig |-> <<>>, body |-> <<>>]

\* function.getSignature().getPrototypeString() + "{}"
Fallback(f) == [sig |-> Signature(Parameters(f)), body |-> <<>>]

\* the code __decompile_function stores for a function not yet in the cache
DecompiledCode(f) ==
    IF f \in program.fails THEN Fallback(f)
    ELSE LET Repaired(code) == [sig |-> code.sig, body |-> Repair(code.body)]
         IN  Repaired(DecompilerOutput(f))

\* __decompile_function(f): the cached code, or the code it is about to cache
decompile_function(f) ==
    IF f \in DOMAIN decompiled_functions THEN decompiled_functions[f].code
    ELSE DecompiledCode(f)

\* the cache after the functions of set fs have been requested through it
CacheAfter(fs) ==
    [f \in DOMAIN decompiled_functions \cup fs |->
        IF f \in DOMAIN decompiled_functions THEN decompiled_functions[f]
        ELSE [code |-> DecompiledCode(f)]]

\* the decompiler invoked on every request, cached or not
CallsAfter_Always(fs) ==
    [f \in Funcs |-> IF f \in fs THEN decompiler_calls[f] + 1 ELSE decompiler_calls[f]]

\* the decompiler invocations after the functions of set fs have been requested
CallsAfter(fs) ==
    [f \in Funcs |-> IF f \in fs /\ f \notin DOMAIN decompiled_functions
                     THEN decompiler_calls[f] + 1 ELSE decompiler_calls[f]]

\* __get_function_param(function, function_code, index), index from 0
get_function_param(f, code, index) ==
    IF index < Len(Parameters(f)) THEN Parameters(f)[index + 1]
    ELSE IF index < Len(code.sig) THEN Strip(code.sig[index + 1])
    ELSE None

\* name.rsplit(" ", 1)[-1].replace("*", "").strip()
BareName(piece) ==
    LET spaces == {i \in DOMAIN piece : piece[i] = " "}
        tail == IF spaces = {} THEN piece ELSE SubSeq(piece, Max(spaces) + 1, Len(piece))
    IN  Strip(SelectSeq(tail, LAMBDA c : c # "*"))

\* __enumerate_function_params(function, function_code): the names, by index from 1
enumerate_function_params(f, code) ==
    IF Len(Parameters(f)) > 0 THEN Parameters(f)
    ELSE [i \in DOMAIN code.sig |-> BareName(code.sig[i])]

-----------------------------------------------------------------------------
(* The Reference Locator, as far as the program's code determines it *)

\* the functions holding a call reference to a library-loading API
load_lib_functions ==
    {f \in Funcs : OfKind(Repair(program.funcs[f].body), "ll") # {}}

\* the referencing functions whose code is not in the cache yet
dyn_imp_functions_Uncached ==
    SelectSeq(program.order,
              LAMBDA f : /\ OfKind(Repair(program.funcs[f].body), "gpa") # {}
                         /\ f \notin DOMAIN decompiled_functions)

\* the functions holding a call reference to GetProcAddress, in iteration order
dyn_imp_functions ==
    SelectSeq(program.order,
              LAMBDA f : OfKind(Repair(program.funcs[f].body), "gpa") # {})

\* __get_calling_functions(function), in iteration order
get_calling_functions(f) ==
    SelectSeq(program.order,
              LAMBDA c : \E i \in OfKind(program.funcs[c].body, "call") :
                            program.funcs[c].body[i].function = f)

-----------------------------------------------------------------------------
(* The Handle Resolver *)

\* a resolver's answer: the StringParam found (NoParam for None), whether an
\* exception was raised, and the functions requested from the cache on the way
Answer(res, dec) == [res |-> res, err |-> FALSE, dec |-> dec]
Raised(dec) == [res |-> NoParam, err |-> TRUE, dec |-> dec]

\* the longest identifier the assigned-to text ends with, <<>> if none
IdentSuffix(lhs) ==
    LET ok == {s \in DOMAIN lhs : IsIdentifier(SubSeq(lhs, s, Len(lhs)))}
    IN  IF ok = {} THEN <<>> ELSE SubSeq(lhs, Min(ok), Len(lhs))

\* the assigned text is the parameter, possibly behind a cast: (?:\(.+?\)\s*)?param
IsParamBehindCast(rhs, param) ==
    \/ rhs = param
    \/ /\ EndsWith(rhs, param)
       /\ LET pre == Strip(SubSeq(rhs, 1, Len(rhs) - Len(param)))
          IN  Len(pre) >= 3 /\ pre[1] = "(" /\ pre[Len(pre)] = ")"

\* alias_regex.search: the first "local_var = param;" of the code
ParamAliases(param, body) ==
    LET hits == {i \in OfKind(body, "assign") :
                    IdentSuffix(body[i].lhs) # <<>> /\ IsParamBehindCast(body[i].rhs, param)}
    IN  IF hits = {} THEN {} ELSE {IdentSuffix(body[Min(hits)].lhs)}

\* the actual argument textually overlaps the handle
Overlaps(h_module, call_param) == Contains(call_param, h_module) \/ Contains(h_module, call_param)

\* one iteration of the loop of __find_h_module_assignment, on an argument that
\* overlaps the handle: "break" (lines 213 and 242), "return" (lines 238 and
\* 240), "raise" (call_params[param_index], line 238) or "next" (the inner loop
\* ends without a return)
h_module_assignment_at(g, function_code, call_params, hmodule_offset, index) ==
    LET Outcome(outcome, res) == [outcome |-> outcome, res |-> res]
        Traced(lp_lib_filename, hits) ==
            IF lp_lib_filename = NoParam THEN Outcome("break", NoParam)
            ELSE IF is_literal(lp_lib_filename) THEN Outcome("return", lp_lib_filename)
            ELSE IF hits # {}
            THEN IF Min(hits) > Len(call_params) THEN Outcome("raise", NoParam)
                 ELSE Outcome("return", StringParam(call_params[Min(hits)]))
            ELSE Outcome("next", NoParam)
        Assigned(lp_lib_filename, params) ==
            Traced(lp_lib_filename,
                   {k \in DOMAIN params : Contains(lp_lib_filename.name, params[k])})
        Named(hmodule_param) ==
            IF hmodule_param = None \/ hmodule_param = <<>> THEN Outcome("break", NoParam)
            ELSE Assigned(find_loadlibrary_assignment(
                              CastPattern({hmodule_param}
                                              \cup ParamAliases(hmodule_param, function_code.body),
                                          hmodule_offset),
                              function_code.body),
                          enumerate_function_params(g, function_code))
    IN  Named(get_function_param(g, function_code, index - 1))

\* __find_h_module_assignment(function, call_params, h_module, hmodule_offset),
\* from the actual argument at position index (counted from 1) on
RECURSIVE find_h_module_assignment_from(_, _, _, _, _)
find_h_module_assignment_from(g, call_params, h_module, hmodule_offset, index) ==
    LET Outcome(o) ==
            IF o.outcome = "raise" THEN Raised({g})
            ELSE IF o.outcome = "next"
            THEN [find_h_module_assignment_from(g, call_params, h_module,
                                                hmodule_offset, index + 1)
                     EXCEPT !.dec = @ \cup {g}]
            ELSE Answer(o.res, {g})
    IN  IF index > Len(call_params) THEN Answer(NoParam, {})
        ELSE IF ~Overlaps(h_module, call_params[index])
        THEN find_h_module_assignment_from(g, call_params, h_module, hmodule_offset, index + 1)
        ELSE Outcome(h_module_assignment_at(g, decompile_function(g), call_params,
                                       hmodule_offset, index))

\* the search goes on into the calls of g that pass the parameter on
find_h_module_assignment_Deep(g, call_params, h_module, hmodule_offset) ==
    LET Passed(own, param, body) ==
            LET hops == {j \in OfKind(body, "call") :
                            /\ body[j].function \in Funcs \ {g}
                            /\ \E m \in DOMAIN body[j].params : body[j].params[m] = param}
                Deeper(r) == [r EXCEPT !.dec = @ \cup own.dec]
            IN  IF hops = {} THEN own
                ELSE Deeper(find_h_module_assignment_from(
                                body[Max(hops)].function, body[Max(hops)].params, param,
                                hmodule_offset, 1))
        Searched(own, overlapping) ==
            IF own.err \/ own.res # NoParam \/ overlapping = {} THEN own
            ELSE Passed(own,
                        get_function_param(g, decompile_function(g), Min(overlapping) - 1),
                        decompile_function(g).body)
    IN  Searched(find_h_module_assignment_from(g, call_params, h_module, hmodule_offset, 1),
                 {i \in DOMAIN call_params : Overlaps(h_module, call_params[i])})

find_h_module_assignment(g, call_params, h_module, hmodule_offset) ==
    find_h_module_assignment_from(g, call_params, h_module, hmodule_offset, 1)

\* every function of the program that is called is looked into
Qualifies_AnyCallee(calling_function, function, called_function_name) ==
    /\ called_function_name \in InternalNames
    /\ called_function_name \in Funcs

\* whether the scan of __find_h_module looks into the callee of a call statement
Qualifies(calling_function, function, called_function_name) ==
    /\ called_function_name \in InternalNames
    /\ called_function_name # function
    /\ called_function_name # calling_function
    /\ called_function_name \in Funcs
    /\ called_function_name \in load_lib_functions

\* the loop of __find_h_module over the internal calls of call_context, from
\* statement i backwards
RECURSIVE scan_internal_calls(_, _, _, _, _, _)
scan_internal_calls(calling_function, call_context, function, h_module, offset, i) ==
    LET Looked(found) ==
            IF found.err \/ found.res # NoParam THEN found
            ELSE [scan_internal_calls(calling_function, call_context, function, h_module,
                                      offset, i - 1)
                     EXCEPT !.dec = @ \cup found.dec]
    IN  IF i = 0 THEN Answer(NoParam, {})
        ELSE IF ~(call_context[i].kind = "call"
                  /\ Qualifies(calling_function, function, call_context[i].function))
        THEN scan_internal_calls(calling_function, call_context, function, h_module, offset,
                                 i - 1)
        ELSE Looked(find_h_module_assignment(call_context[i].function,
                                             call_context[i].params, h_module, offset))

\* __find_h_module(calling_function, call_context, function, h_module, offset);
\* function is "" where the code passes None
find_h_module(calling_function, call_context, function, h_module, offset) ==
    LET Direct(lp_lib_filename) ==
            IF lp_lib_filename # NoParam THEN Answer(lp_lib_filename, {})
            ELSE scan_internal_calls(calling_function, call_context, function, h_module,
                                     offset, Len(call_context))
    IN  Direct(find_loadlibrary_assignment(TextPattern(h_module), call_context))

-----------------------------------------------------------------------------
(* The Call-Site Analyzer: __parse_api_params *)

\* __enumerate_function_calls(code): whether call_regex matches the statement
IsFunctionCall(stmt) == stmt.kind = "call" /\ stmt.function \in InternalNames \cup CopyNames

\* the first string literal that the calls of call_context, scanned backwards
\* from statement i, pair with var; calls to the functions of skip are passed over
RECURSIVE literal_from_calls(_, _, _, _)
literal_from_calls(call_context, skip, var, i) ==
    IF i = 0 THEN NoParam
    ELSE IF ~IsFunctionCall(call_context[i]) \/ call_context[i].function \in skip
    THEN literal_from_calls(call_context, skip, var, i - 1)
    ELSE LET str == find_string_literal_param(call_context[i].params, var)
         IN  IF str # NoParam /\ is_literal(str) THEN str
             ELSE literal_from_calls(call_context, skip, var, i - 1)

\* text with every occurrence of old removed: text.replace(old, "")
RECURSIVE RemoveAll(_, _)
RemoveAll(text, old) ==
    IF old = <<>> \/ ~Contains(text, old) THEN text
    ELSE LET at == Min({i \in DOMAIN text : SubAt(text, i, old)})
         IN  SubSeq(text, 1, at - 1)
                 \o RemoveAll(SubSeq(text, at + Len(old), Len(text)), old)

\* group 1 of hmodule_cast_regex.format("(.[^\)\n\r,]*)") matched at the start
\* of the non-empty text h: what follows the HMODULE cast, an opening
\* parenthesis and a further cast, up to the next ")" or ","
HModuleGroup(h) ==
    LET StartsFrom(q) ==
            LET closers == {j \in (q + 1)..(Len(h) - 1) : h[j] = ")"}
            IN  IF At(h, q) = "(" /\ closers # {} THEN Max(closers) + 1 ELSE q
        AfterParen(p) ==
            IF At(h, p) = "(" /\ p + 1 <= Len(h) THEN StartsFrom(p + 1) ELSE StartsFrom(p)
        start == IF StartsWith(h, s_hmodule_cast) /\ Len(s_hmodule_cast) < Len(h)
                 THEN AfterParen(Len(s_hmodule_cast) + 1)
                 ELSE AfterParen(1)
        stops == {j \in (start + 1)..Len(h) : h[j] \in {")", ","}}
    IN  SubSeq(h, start, IF stops = {} THEN Len(h) ELSE Min(stops) - 1)

\* external_params: the position (from 1) of the formal parameter that carries
\* each missing value, 0 where the dictionary has no such key; none is TRUE
\* where the code returns None for it
NoExternal == [none |-> TRUE, lpLibFileName |-> 0, lpProcName |-> 0, hModule |-> 0,
               offset |-> <<>>]

LastOf(S) == IF S = {} THEN 0 ELSE Max(S)

\* __parse_api_params(function, function_code, getprocaddress_call) for the
\* GetProcAddress call that is statement site of function_code
parse_api_params(function, function_code, site) ==
    LET call_context_code == SubSeq(function_code.body, 1, site - 1)
        External(h_module, lp_lib_filename, api_dll, lp_proc_name, api_name, params) ==
            LET LibHit(k) == /\ api_dll = None /\ lp_lib_filename # NoParam
                             /\ params[k] = lp_lib_filename.name
                HandleHit(k) == /\ api_dll = None /\ lp_lib_filename = NoParam
                                /\ Contains(h_module, params[k])
                ProcHit(k) == /\ ~LibHit(k) /\ ~HandleHit(k)
                              /\ api_name = None /\ params[k] = lp_proc_name.name
                WithHandle(handle) ==
                    [none |-> FALSE,
                     lpLibFileName |-> LastOf({k \in DOMAIN params : LibHit(k)}),
                     lpProcName |-> LastOf({k \in DOMAIN params : ProcHit(k)}),
                     hModule |-> handle,
                     offset |-> IF handle = 0 THEN <<>>
                                ELSE RemoveAll(HModuleGroup(h_module), params[handle])]
            IN  IF api_dll # None /\ api_name # None THEN NoExternal
                ELSE WithHandle(LastOf({k \in DOMAIN params :
                                           HandleHit(k) /\ h_module # <<>>}))
        Found(h_module, found, api_dll, lp_proc_name, api_name) ==
            [api_dll |-> api_dll, api_name |-> api_name,
             lp_lib_filename |-> found.res, err |-> found.err, dec |-> found.dec,
             external_params |->
                External(h_module, found.res, api_dll, lp_proc_name, api_name,
                         enumerate_function_params(function, function_code))]
        Name(lp_proc_name, api_string) ==
            IF is_literal(lp_proc_name) THEN lp_proc_name.value
            ELSE IF api_string # NoParam THEN api_string.value
            ELSE None
        Named(h_module, found, api_dll, lp_proc_name) ==
            Found(h_module, found, api_dll, lp_proc_name,
                  Name(lp_proc_name,
                       literal_from_calls(call_context_code, InternalNames \cup {function},
                                          lp_proc_name.name, Len(call_context_code))))
        Dll(lp_lib_filename, dll_string) ==
            IF lp_lib_filename = NoParam
            THEN (IF dll_string # NoParam THEN dll_string.value ELSE None)
            ELSE IF is_literal(lp_lib_filename) THEN lp_lib_filename.value
            ELSE None
        Handle(h_module, found) ==
            Named(h_module, found,
                  Dll(found.res, literal_from_calls(call_context_code, {function}, h_module,
                                                    Len(call_context_code))),
                  StringParam(Strip(function_code.body[site].name)))
        Site(h_module) ==
            Handle(h_module, find_h_module(function, call_context_code, "", h_module, <<>>))
    IN  Site(Strip(function_code.body[site].h))

-----------------------------------------------------------------------------
(* The Caller Propagator: __enumerate_call_params *)

\* the positions of a sequence that satisfy Test, in order
Positions(seq, Test(_)) == SelectSeq([i \in DOMAIN seq |-> i], Test)

RECURSIVE Flatten(_)
Flatten(seqs) == IF seqs = <<>> THEN <<>> ELSE Head(seqs) \o Flatten(Tail(seqs))

Range(seq) == {seq[i] : i \in DOMAIN seq}

s_LoadLibraryA == <<"L","o","a","d","L","i","b","r","a","r","y","A">>

\* the text a statement "lhs = ...;" assigns, as (.*?); captures it
AssignedText(stmt) ==
    IF stmt.kind = "assign" THEN stmt.rhs
    ELSE s_LoadLibraryA \o <<"(">> \o stmt.arg \o <<")">>

\* function_regex.finditer(calling_function_code): the matches in the code of
\* the caller that is number n in iteration order.  The signature line of the
\* function's own code matches as well, with nothing before it.
calls_in(function, calling_function, n) ==
    LET Match(context, params) ==
            [caller |-> n, calling_function |-> calling_function,
             call_context |-> context,
             function_call_params |-> [k \in DOMAIN params |-> Strip(params[k])]]
        Matches(code, at) ==
            (IF calling_function = function THEN <<Match(<<>>, code.sig)>> ELSE <<>>)
            \o [j \in DOMAIN at |-> Match(SubSeq(code.body, 1, at[j] - 1),
                                          code.body[at[j]].params)]
        In(code) ==
            Matches(code, Positions(code.body, LAMBDA i : /\ code.body[i].kind = "call"
                                                          /\ code.body[i].function = function))
    IN  In(decompile_function(calling_function))

\* the library-name argument of one call to function, traced in the caller
lib_filename_of(function, call, index) ==
    LET Traced(lp_lib_filename, assignment_matches, dll_name) ==
            IF is_literal(lp_lib_filename) THEN lp_lib_filename
            ELSE IF assignment_matches # {}
            THEN StringParam(AssignedText(call.call_context[Max(assignment_matches)]))
            ELSE IF dll_name # NoParam THEN dll_name
            ELSE lp_lib_filename
        Argument(lp_lib_filename) ==
            Traced(lp_lib_filename,
                   {i \in DOMAIN call.call_context :
                       /\ call.call_context[i].kind \in {"assign", "ll"}
                       /\ EndsWith(call.call_context[i].lhs, lp_lib_filename.name)},
                   literal_from_calls(call.call_context, {function, call.calling_function},
                                      lp_lib_filename.name, Len(call.call_context)))
    IN  Argument(StringParam(call.function_call_params[index]))

\* what __enumerate_call_params yields for one call to function
yield_of(function, external_params, call) ==
    LET n == Len(call.function_call_params)
        Yield(lp_lib_filename, lp_proc_name, err, dec) ==
            [lp_lib_filename |-> lp_lib_filename, lp_proc_name |-> lp_proc_name,
             err |-> err, dec |-> dec]
        FromHandle(found, lp_proc_name) == Yield(found.res, lp_proc_name, found.err, found.dec)
        Pair(lp_proc_name) ==
            IF external_params.hModule = 0
            THEN Yield(IF /\ 0 < external_params.lpLibFileName
                          /\ external_params.lpLibFileName <= n
                       THEN lib_filename_of(function, call, external_params.lpLibFileName)
                       ELSE NoParam,
                       lp_proc_name, FALSE, {})
            ELSE IF external_params.hModule > n
            THEN Yield(NoParam, lp_proc_name, TRUE, {})
            ELSE FromHandle(find_h_module(call.calling_function, call.call_context, function,
                                          call.function_call_params[external_params.hModule],
                                          external_params.offset),
                            lp_proc_name)
    IN  Pair(IF 0 < external_params.lpProcName /\ external_params.lpProcName <= n
             THEN StringParam(call.function_call_params[external_params.lpProcName])
             ELSE NoParam)

\* __enumerate_call_params(function, external_params): the pairs yielded before
\* an exception, if any, ends the generator
enumerate_call_params(function, external_params) ==
    LET Until(callers, calls, yields, raised) ==
            [yields |-> SubSeq(yields, 1, IF raised = {} THEN Len(yields) ELSE Min(raised) - 1),
             err |-> raised # {},
             dec |-> IF raised = {}
                     THEN Range(callers) \cup UNION {yields[i].dec : i \in DOMAIN yields}
                     ELSE {callers[n] : n \in 1..calls[Min(raised)].caller}
                          \cup UNION {yields[i].dec : i \in 1..Min(raised)}]
        Yielded(callers, calls, yields) ==
            Until(callers, calls, yields, {i \in DOMAIN yields : yields[i].err})
        Calls(callers, calls) ==
            Yielded(callers, calls,
                    [i \in DOMAIN calls |-> yield_of(function, external_params, calls[i])])
        Callers(callers) ==
            Calls(callers,
                  Flatten([n \in DOMAIN callers |-> calls_in(function, callers[n], n)]))
    IN  Callers(get_calling_functions(function))

-----------------------------------------------------------------------------
(* crawl_dynamic_imports: the work on one GetProcAddress call *)

\* the loop over the yielded pairs without the test of the name
RECURSIVE merge_yields_AnyName(_, _, _, _)
merge_yields_AnyName(st, api_dll, api_name, yields) ==
    IF yields = <<>> THEN st
    ELSE LET y == Head(yields)
             dll == IF is_literal(y.lp_lib_filename) THEN y.lp_lib_filename.value
                    ELSE api_dll
             name == IF is_literal(y.lp_proc_name) THEN y.lp_proc_name.value
                     ELSE api_name
         IN  merge_yields_AnyName(update_api_dict(st, dll, name), dll, name, Tail(yields))

\* the loop over the yielded pairs; api_dll and api_name carry over
RECURSIVE merge_yields(_, _, _, _)
merge_yields(st, api_dll, api_name, yields) ==
    IF yields = <<>> THEN st
    ELSE LET y == Head(yields)
             dll == IF is_literal(y.lp_lib_filename) THEN y.lp_lib_filename.value
                    ELSE api_dll
             name == IF is_literal(y.lp_proc_name) THEN y.lp_proc_name.value
                     ELSE api_name
         IN  merge_yields(IF name # None /\ name # <<>>
                          THEN update_api_dict(st, dll, name) ELSE st,
                          dll, name, Tail(yields))

\* the empty dictionary is not told from one that has keys
HasNoKeys_Never(external_params) == FALSE

HasNoKeys(external_params) ==
    /\ external_params.lpLibFileName = 0
    /\ external_params.lpProcName = 0
    /\ external_params.hModule = 0

\* the body of the loop over the GetProcAddress calls of function_code
crawl_call_site(st, function, function_code, site) ==
    LET Outcome(merged, err, dec) == [st |-> merged, err |-> err, dec |-> dec]
        Propagated(p, e) ==
            Outcome(merge_yields(st, p.api_dll, p.api_name, e.yields), e.err, p.dec \cup e.dec)
        Parsed(p) ==
            IF p.err THEN Outcome(st, TRUE, p.dec)
            ELSE IF p.external_params.none
            THEN Outcome(update_api_dict(st, p.api_dll, p.api_name), FALSE, p.dec)
            ELSE IF HasNoKeys(p.external_params)
            THEN Outcome(IF p.api_name # None
                         THEN update_api_dict(st, p.api_dll, p.api_name) ELSE st,
                         FALSE, p.dec)
            ELSE Propagated(p, enumerate_call_params(function, p.external_params))
    IN  Parsed(parse_api_params(function, function_code, site))

-----------------------------------------------------------------------------
(* The programs the engine is run on.                                       *)
(*                                                                          *)
(* FUN_1 holds the GetProcAddress calls, FUN_2 is a helper that may load a  *)
(* library for its caller, FUN_3 calls FUN_1 and may hold a call site of    *)
(* its own.  The pools below vary how the handle is obtained, what the name *)
(* argument is, what the helper and the caller do, which functions the      *)
(* decompiler fails on, whose metadata is missing and whose convention is   *)
(* recorded as __thiscall.                                                  *)

s_hModule == <<"h","M","o","d","u","l","e">>
s_ref_hModule == <<"&","h","M","o","d","u","l","e">>
s_hModule_00 == <<"h","M","o","d","u","l","e","_","0","0">>
s_zero == <<"0">>
s_param_1 == <<"p","a","r","a","m","_","1">>
s_param_2 == <<"p","a","r","a","m","_","2">>
s_deref_param_1 == <<"*","p","a","r","a","m","_","1">>
s_deref_param_2 == <<"*","p","a","r","a","m","_","2">>
s_local_30 == <<"l","o","c","a","l","_","3","0">>
s_field_of_local_30 == <<"*","(","H","M","O","D","U","L","E"," ","*",")","(","l","o","c","a","l","_","3","0"," ","+"," ","0","x","1","c",")">>
s_field_of_param_1 == <<"*","(","H","M","O","D","U","L","E"," ","*",")","(","p","a","r","a","m","_","1"," ","+"," ","0","x","1","c",")">>
s_hLib == <<"h","L","i","b">>
s_ref_hLib == <<"&","h","L","i","b">>
s_pcVar1 == <<"p","c","V","a","r","1">>
s_pcVar2 == <<"p","c","V","a","r","2">>
s_USER32 == <<"U","S","E","R","3","2">>
s_local_14 == <<"l","o","c","a","l","_","1","4">>
s_local_18 == <<"l","o","c","a","l","_","1","8">>
s_missing_json == <<"m","i","s","s","i","n","g",".","j","s","o","n">>

\* a C string literal
Q(s) == <<quote>> \o s \o <<quote>>

Fn(params, body) == [params |-> params, body |-> body]

\* how FUN_1 obtains the handle before its GetProcAddress call
LocalLoads ==
    { <<LL(s_hModule, Q(s_shell32_dll))>>,
      <<LL(s_hModule, Q(s_shell32_dll)), LL(s_hModule, Q(s_USER32))>>,
      <<LL(s_hLib, Q(s_shell32_dll)), Assign(s_hModule, s_hLib)>>,
      <<LL(s_hLib, Q(s_shell32_dll)), Assign(s_hModule, s_hLib), LL(s_hModule, Q(s_USER32))>>,
      <<ExRef(s_pcVar1, "LoadLibraryA"), ICall(s_hModule, s_pcVar1, <<Q(s_shell32_dll)>>)>>,
      <<LL(s_hModule, s_param_1)>>,
      <<>> }

HelperCalls ==
    { <<Call("FUN_2", <<s_ref_hModule>>)>>,
      <<Call("FUN_2", <<s_zero, s_ref_hModule>>)>>,
      <<Call("FUN_2", <<s_hModule_00, s_ref_hModule>>)>>,
      <<Call("FUN_2", <<s_ref_hModule, <<" ">> \o Q(s_advapi32_dll)>>)>>,
      <<Call("FUN_1", <<s_ref_hModule, s_zero>>)>>,
      <<Call("FUN_3", <<s_ref_hModule>>)>> }

\* the helper FUN_2
HelperBodies ==
    { <<LL(s_deref_param_1, Q(s_advapi32_dll))>>,
      <<LL(s_deref_param_2, Q(s_advapi32_dll))>>,
      <<LL(s_deref_param_1, s_param_2)>>,
      <<Decl("int", s_local_30), LL(s_field_of_local_30, Q(s_advapi32_dll))>>,
      <<Call("FUN_1", <<s_param_1, s_zero>>), LL(s_deref_param_1, Q(s_advapi32_dll))>> }

\* the caller FUN_3
NoCaller == <<>>

NameArguments == {Q(s_IsUserAnAdmin), Q(s_GetUserNameA), Q(s_CreateFileW), s_param_2}


\* FUN_1: what precedes the call, the call, and possibly a second call after it
SiteFunction(before, h_module, name, after) ==
    Fn(<<s_param_1, s_param_2>>, before \o <<GPA(h_module, name)>> \o after)

\* the GetProcAddress call made through a pointer loaded from the import stub
IndirectSiteFunction(before, h_module, name) ==
    Fn(<<s_param_1, s_param_2>>,
       before \o <<ExRef(s_pcVar2, "GetProcAddress"),
                   ICall(<<>>, s_pcVar2, <<h_module, name>>)>>)

CallOfSite == <<LL(s_hLib, Q(s_kernel32_dll)), Call("FUN_1", <<s_hLib, <<" ">> \o Q(s_CreateFileW)>>)>>
CallAfterHelper == <<Call("FUN_2", <<s_ref_hLib>>), Call("FUN_1", <<s_hLib, <<" ">> \o Q(s_GetUserNameA)>>)>>
TwoCallsOfSite == CallOfSite \o <<Call("FUN_1", <<s_zero, <<" ">> \o s_param_1>>)>>
\* two calls of FUN_1: the second reloads the handle and passes no name of its own
StaleCalls ==
    CallOfSite \o <<LL(s_hLib, Q(s_user32_dll)), Call("FUN_1", <<s_hLib, <<" ">> \o s_param_1>>)>>
\* FUN_3 loads a library into its parameter, calls itself on the handle and
\* then calls FUN_1 on it
RecursiveCaller ==
    <<LL(s_deref_param_1, Q(s_kernel32_dll)), Call("FUN_3", <<s_ref_hLib>>),
      Call("FUN_1", <<s_hLib, <<" ">> \o Q(s_GetUserNameA)>>)>>
OwnSite == <<LL(s_hLib, Q(s_kernel32_dll)), GPA(s_hLib, Q(s_CreateFileW))>>
LoadsForCaller == <<Call("FUN_1", <<s_ref_hLib, s_zero>>), LL(s_deref_param_1, Q(s_advapi32_dll))>>
SecondSite == <<GPA(s_hModule, Q(s_CreateFileW))>>

\* the three functions of a program: FUN_1, FUN_2, FUN_3
LocalFamily ==
    { <<SiteFunction(b, s_hModule, n, <<>>), Fn(<<s_param_1, s_param_2>>, <<>>), Fn(<<s_param_1>>, c)>> :
        b \in LocalLoads, n \in NameArguments, c \in {NoCaller, CallOfSite} }
    \cup
    { <<IndirectSiteFunction(b, s_hModule, Q(s_IsUserAnAdmin)),
        Fn(<<s_param_1, s_param_2>>, <<>>), Fn(<<s_param_1>>, NoCaller)>> : b \in LocalLoads }

HopFamily ==
    { <<SiteFunction(b, s_hModule, Q(s_GetUserNameA), t[1]),
        Fn(<<s_param_1, s_param_2>>, g), Fn(<<s_param_1>>, t[2])>> :
        b \in HelperCalls, g \in HelperBodies,
        t \in {<<<<>>, NoCaller>>, <<SecondSite, NoCaller>>,
               <<<<>>, OwnSite>>, <<<<>>, LoadsForCaller>>} }

ExternalFamily ==
    { <<SiteFunction(<<>>, h, n, <<>>), Fn(<<s_param_1, s_param_2>>, g), Fn(<<s_param_1>>, c)>> :
        h \in {s_param_1, s_field_of_param_1}, n \in {Q(s_GetUserNameA), s_param_2},
        g \in HelperBodies,
        c \in {CallOfSite, CallAfterHelper, TwoCallsOfSite, StaleCalls, RecursiveCaller} }

\* the handle is passed round a cycle of calls: FUN_2 passes it on to itself,
\* back to FUN_1, or to FUN_3, which passes it to FUN_1
CycleFamily ==
    { <<SiteFunction(<<LL(s_hLib, Q(s_shell32_dll)), Call("FUN_2", <<a[1]>>)>>,
                     a[2], Q(s_GetUserNameA), <<>>),
        Fn(<<s_param_1, s_param_2>>, <<LL(s_hLib, Q(s_advapi32_dll)), g>>),
        Fn(<<s_param_1>>, c)>> :
        a \in {<<s_ref_hModule, s_hModule>>, <<s_param_1, s_param_1>>},
        g \in {Call("FUN_2", <<s_param_1, s_zero>>), Call("FUN_1", <<s_param_1, s_zero>>),
               Call("FUN_3", <<s_param_1>>)},
        c \in {<<LL(s_hLib, Q(s_kernel32_dll)), Call("FUN_1", <<s_param_1, s_zero>>)>>,
               LoadsForCaller} }

\* the name handed to GetProcAddress is a local: how it is filled in before the
\* call, by string copies or by a call to an internal function
NameCopies ==
    { <<>>,
      <<Call("strcpy", <<s_local_14, <<" ">> \o Q(s_GetUserNameA)>>)>>,
      <<Call("strcpy", <<s_local_14, Q(s_IsUserAnAdmin)>>),
        Call("strcpy", <<s_local_14, Q(s_GetUserNameA)>>)>>,
      <<Call("strcpy", <<s_local_14, Q(s_GetUserNameA)>>),
        Call("strcpy", <<s_local_18, Q(s_IsUserAnAdmin)>>)>>,
      <<Call("FUN_2", <<s_local_14, Q(s_GetUserNameA)>>)>>,
      <<Call("strcpy", <<Q(s_GetUserNameA), s_zero, s_local_14>>)>> }

NameFamily ==
    { <<SiteFunction(l \o c, s_hModule, s_local_14, <<>>),
        Fn(<<s_param_1, s_param_2>>, <<>>), Fn(<<s_param_1>>, NoCaller)>> :
        l \in {<<>>, <<LL(s_hModule, Q(s_shell32_dll))>>}, c \in NameCopies }

\* the handle is handed to several internal functions before the call, or to
\* one besides a load of its own; FUN_4 is a name no function of the program has
EarlierLoad == <<LL(s_deref_param_1, Q(s_kernel32_dll))>>

OrderedCalls ==
    { <<Call("FUN_3", <<s_ref_hModule>>), Call("FUN_2", <<s_ref_hModule>>)>>,
      <<Call("FUN_2", <<s_ref_hModule>>), LL(s_hModule, Q(s_shell32_dll))>>,
      <<LL(s_hModule, Q(s_shell32_dll)), Call("FUN_2", <<s_ref_hModule>>)>>,
      <<Call("FUN_3", <<s_ref_hModule>>), Call("FUN_4", <<s_ref_hModule>>)>> }

\* FUN_2 loads a library of its own and passes the handle on to FUN_3
PassesOn == <<LL(s_hLib, Q(s_shell32_dll)), Call("FUN_3", <<s_param_1>>)>>

OrderFamily ==
    { <<SiteFunction(b, s_hModule, Q(s_GetUserNameA), <<>>),
        Fn(<<s_param_1, s_param_2>>, g), Fn(<<s_param_1>>, EarlierLoad)>> :
        b \in OrderedCalls, g \in HelperBodies \cup {<<>>} }
    \cup
    { <<SiteFunction(<<Call("FUN_2", <<s_ref_hModule>>)>>, s_hModule, Q(s_GetUserNameA), <<>>),
        Fn(<<s_param_1, s_param_2>>, PassesOn), Fn(<<s_param_1>>, EarlierLoad)>> }

FunctionTriples ==
    LocalFamily \cup HopFamily \cup ExternalFamily \cup CycleFamily \cup NameFamily
        \cup OrderFamily

FunctionNames == <<"FUN_1", "FUN_2", "FUN_3">>

\* which functions the decompiler fails on, whose metadata reports no
\* parameters, whose convention is already __thiscall, and the address size
Plain == [fails |-> {}, nometa |-> {}, thiscall |-> {}, size |-> 32]
Settings ==
    {Plain, [Plain EXCEPT !.size = 64]}
    \cup {[Plain EXCEPT !.fails = {f}] : f \in Range(FunctionNames)}
    \cup {[Plain EXCEPT !.nometa = {f}] : f \in {"FUN_1", "FUN_2"}}
    \cup {[Plain EXCEPT !.thiscall = {"FUN_2"}]}

Programs ==
    { [funcs |-> [f \in Range(FunctionNames) |->
                     t[CHOOSE i \in DOMAIN FunctionNames : FunctionNames[i] = f]],
       fails |-> s.fails, nometa |-> s.nometa, order |-> FunctionNames,
       size |-> s.size, thiscall |-> s.thiscall] :
        t \in FunctionTriples, s \in Settings }

-----------------------------------------------------------------------------
(* The engine: construction and crawl_dynamic_imports, a step at a time *)

MaxRuns == 2      \* runs of get_api_dict on one program

\* the /apidb argument: not given, a path that is no file, the database's path
ApiDbArguments == {None, s_missing_json, s_apidb_json}

\* os.path.isfile(path) for a path that is a string
isfile(path) == path = s_apidb_json

Init ==
    /\ program \in Programs
    /\ db_file \in {DbWithExtensions, EmptyDict}
    /\ defined_strings = {s_KERNEL32_DLL}
    /\ conv = [f \in DOMAIN program.funcs |->
                  IF f \in program.thiscall THEN "__thiscall" ELSE "__stdcall"]
    /\ api_db_arg = None
    /\ api_db_path = None
    /\ pc = "new"
    /\ run = 1
    /\ todo = <<>>
    /\ sites = <<>>
    /\ decompiled_functions = <<>>
    /\ decompiler_calls = [f \in DOMAIN program.funcs |-> 0]
    /\ visited = {}
    /\ first_result = EmptyDict
    /\ api_db = NotLoaded
    /\ db_reads = 0
    /\ api_dict = EmptyDict
    /\ last = NoCall
    /\ stack = <<>>
    /\ returned = NoReturn
    /\ NotClassifying
    /\ NotLocating

\* DynamicImportsEnumerator(verbose, api_db): os.path.isfile raises TypeError
\* on None, which nothing catches
Construct ==
    /\ pc = "new"
    /\ \E api_db_argument \in ApiDbArguments :
          /\ api_db_arg' = api_db_argument
          /\ IF api_db_argument = None
             THEN pc' = "TypeError" /\ UNCHANGED api_db_path
             ELSE /\ pc' = "ready"
                  /\ api_db_path' = IF isfile(api_db_argument) THEN api_db_argument ELSE None
    /\ decompiled_functions' = <<>>
    /\ api_db' = NotLoaded
    /\ UNCHANGED <<refVars, classifyVars, resolveVars, program, conv, run, todo, sites, decompiler_calls, visited, first_result,
                   db_file, defined_strings, db_reads, api_dict, last>>

\* crawl_dynamic_imports without the test of the address size
BeginCrawl_AnySize ==
    /\ pc = "ready"
    /\ pc' = "fix"
    /\ todo' = SelectSeq(program.order, LAMBDA f : f \in load_lib_functions)
    /\ UNCHANGED <<refVars, classifyVars, resolveVars, progVars, envVars, mergeVars, conv, run, sites, decompiled_functions,
                   decompiler_calls, visited, first_result>>

\* crawl_dynamic_imports up to its first loop
BeginCrawl ==
    /\ pc = "ready"
    /\ IF program.size = 32
       THEN /\ pc' = "fix"
            /\ todo' = SelectSeq(program.order, LAMBDA f : f \in load_lib_functions)
       ELSE /\ pc' = "crawl"
            /\ todo' = dyn_imp_functions
    /\ UNCHANGED <<refVars, classifyVars, resolveVars, progVars, envVars, mergeVars, conv, run, sites, decompiled_functions,
                   decompiler_calls, visited, first_result>>

\* one iteration of the loop of __fix_calling_conventions
FixCallingConvention ==
    /\ pc = "fix"
    /\ todo # <<>>
    /\ LET ll_function == Head(todo)
           decompiles == conv[ll_function] # "__thiscall"
       IN  /\ conv' = IF /\ decompiles
                         /\ ll_function \notin program.fails
                         /\ LooksLikeThiscall(DecompilerOutput(ll_function).body)
                      THEN [conv EXCEPT ![ll_function] = "__thiscall"]
                      ELSE conv
           /\ decompiler_calls' = IF decompiles
                                  THEN [decompiler_calls EXCEPT ![ll_function] = @ + 1]
                                  ELSE decompiler_calls
           /\ visited' = visited \cup {<<ll_function, 0>>}
    /\ todo' = Tail(todo)
    /\ UNCHANGED <<refVars, classifyVars, resolveVars, progVars, envVars, mergeVars, pc, run, sites, decompiled_functions,
                   first_result>>

\* __fix_calling_conventions returns; the functions referring to GetProcAddress
EndFix ==
    /\ pc = "fix"
    /\ todo = <<>>
    /\ pc' = "crawl"
    /\ todo' = dyn_imp_functions
    /\ UNCHANGED <<refVars, classifyVars, resolveVars, progVars, envVars, mergeVars, conv, run, sites, decompiled_functions,
                   decompiler_calls, visited, first_result>>

\* the next function of dyn_imp_functions: its code and its GetProcAddress calls
CrawlFunction ==
    /\ pc = "crawl"
    /\ sites = <<>>
    /\ todo # <<>>
    /\ LET Found(function, calls) == sites' = [j \in DOMAIN calls |-> <<function, calls[j]>>]
           Decompiled(function, function_code) ==
               Found(function, Positions(function_code.body,
                                         LAMBDA i : function_code.body[i].kind = "gpa"))
       IN  /\ Decompiled(Head(todo), decompile_function(Head(todo)))
           /\ decompiled_functions' = CacheAfter({Head(todo)})
           /\ decompiler_calls' = CallsAfter({Head(todo)})
    /\ todo' = Tail(todo)
    /\ UNCHANGED <<refVars, classifyVars, resolveVars, progVars, envVars, mergeVars, conv, pc, run, visited, first_result>>

\* the body of the loop over the GetProcAddress calls; an IndexError ends the run
ProcessCallSite ==
    /\ pc = "crawl"
    /\ sites # <<>>
    /\ LET Crawled(done) ==
               /\ SetMergeState(done.st)
               /\ decompiled_functions' = CacheAfter(done.dec)
               /\ decompiler_calls' = CallsAfter(done.dec)
               /\ IF done.err
                  THEN pc' = "IndexError" /\ UNCHANGED <<sites, visited>>
                  ELSE /\ pc' = pc
                       /\ sites' = Tail(sites)
                       /\ visited' = visited \cup {Head(sites)}
       IN  Crawled(crawl_call_site(MergeState, Head(sites)[1],
                                   decompile_function(Head(sites)[1]), Head(sites)[2]))
    /\ UNCHANGED <<refVars, classifyVars, progVars, envVars, conv, run, todo, first_result>>

\* the same, taken as one step
CrawlCallSite == ProcessCallSite /\ UNCHANGED resolveVars

\* crawl_dynamic_imports returns
Finish ==
    /\ pc = "crawl"
    /\ sites = <<>>
    /\ todo = <<>>
    /\ pc' = "done"
    /\ first_result' = IF run = 1 THEN api_dict ELSE first_result
    /\ UNCHANGED <<refVars, classifyVars, resolveVars, progVars, envVars, mergeVars, conv, run, todo, sites, decompiled_functions,
                   decompiler_calls, visited>>

\* crawl_dynamic_imports is run again into an empty dictionary, on the same
\* enumerator or, as get_api_dict does, on a newly constructed one
Rerun ==
    /\ pc = "done"
    /\ run < MaxRuns
    /\ run' = run + 1
    /\ api_dict' = EmptyDict
    /\ last' = NoCall
    /\ visited' = {}
    /\ pc' = "ready"
    /\ \E fresh \in BOOLEAN :
          IF fresh
          THEN decompiled_functions' = <<>> /\ api_db' = NotLoaded
          ELSE UNCHANGED <<decompiled_functions, api_db>>
    /\ UNCHANGED <<refVars, classifyVars, resolveVars, progVars, envVars, conv, todo, sites, decompiler_calls, first_result,
                   db_reads>>

Next ==
    \/ Construct
    \/ BeginCrawl
    \/ FixCallingConvention
    \/ EndFix
    \/ CrawlFunction
    \/ CrawlCallSite
    \/ Finish
    \/ Rerun

Spec == Init /\ [][Next]_vars

-----------------------------------------------------------------------------
(* Properties of the crawl, checked under Spec *)

\* the text is one C string literal: "..."
IsQuoted(text) ==
    /\ Len(text) >= 3
    /\ text[1] = quote
    /\ text[Len(text)] = quote
    /\ \A i \in 2..(Len(text) - 1) : text[i] # quote

Unquoted(text) == SubSeq(text, 2, Len(text) - 1)

\* a CrawlCallSite step is about to be taken
AtCallSite == pc = "crawl" /\ sites # <<>>

\* the code of the function whose call site is next, and the call itself
SiteFunctionName == Head(sites)[1]
SiteCode == decompile_function(SiteFunctionName).body
SiteIndex == Head(sites)[2]
SiteCall == SiteCode[SiteIndex]

\* the statements before the call that assign to the handle variable itself
HandleAssignments ==
    {j \in 1..(SiteIndex - 1) : /\ SiteCode[j].kind \in {"ll", "assign"}
                                /\ SiteCode[j].lhs = SiteCall.h}

\* the handle is assigned before the call by library-loading calls only, the
\* closest of them on a literal, and the name argument of the call is a literal
BothLiteral ==
    /\ HandleAssignments # {}
    /\ \A j \in HandleAssignments : SiteCode[j].kind = "ll"
    /\ IsQuoted(SiteCode[Max(HandleAssignments)].arg)
    /\ IsQuoted(SiteCall.name)

LiteralDll == Unquoted(SiteCode[Max(HandleAssignments)].arg)
LiteralName == Unquoted(SiteCall.name)

\* the key the dictionary files a dll name under
KeyOf(dll) ==
    IF \E ext \in {dll_ext, drv_ext, ocx_ext} : EndsWith(Lower(dll), ext)
    THEN Lower(dll)
    ELSE Lower(dll) \o dll_ext

\* dict with exactly the pair (key, api) added
WithPair(dict, key, api) ==
    [k \in DOMAIN dict \cup {key} |->
        IF k = key THEN (IF key \in DOMAIN dict THEN dict[key] ELSE {}) \cup {api}
        ELSE dict[k]]

\* C1: a GetProcAddress call whose handle is resolved by the closest preceding
\* library-loading assignment to it, on a literal D, and whose name argument is
\* a literal N, adds exactly the pair (D lower-cased with an extension, N as
\* written) to the dictionary, and nothing else.
C1_LiteralPriority ==
    [][ (AtCallSite /\ BothLiteral)
            => /\ pc' = "crawl"
               /\ api_dict' = WithPair(api_dict, KeyOf(LiteralDll), LiteralName) ]_vars

\* the call site of FUN_1 that follows two loads of the same handle has been
\* processed: the closer load, of "USER32", filed IsUserAnAdmin under user32.dll
C1_Witness ==
    /\ pc = "crawl"
    /\ \E site \in visited : site[1] = "FUN_1" /\ site[2] = 3
    /\ last.called
    /\ last.dll = s_USER32
    /\ last.api = s_IsUserAnAdmin
    /\ api_dict = (s_user32_dll :> {s_IsUserAnAdmin})


\* C6: a second run of crawl_dynamic_imports on the same program, into an empty
\* dictionary, ends with the dictionary the first run ended with, whether it is
\* run on the same enumerator (which keeps its decompilation cache and its
\* loaded database) or on a new one, the calling conventions patched by the
\* first run being in place either way.  The decompiler is taken to print a
\* function from the program and that function's own calling convention.
C6_SecondRunSame == (pc = "done" /\ run > 1) => api_dict = first_result

\* a second run has ended, on the enumerator of the first, after the first run
\* patched a calling convention, filled the cache and loaded the database, and
\* the dictionary is not empty
C6_Witness ==
    /\ pc = "done"
    /\ run = 2
    /\ api_dict # EmptyDict
    /\ api_dict = first_result
    /\ \E f \in DOMAIN conv : conv[f] = "__thiscall" /\ f \notin program.thiscall
    /\ \A f \in DOMAIN decompiled_functions : decompiler_calls[f] <= 2
    /\ \E f \in DOMAIN decompiled_functions : decompiler_calls[f] = 1
    /\ api_db # NotLoaded
    /\ db_reads = 1


\* the calls before the site that hand the handle, or its address, to another
\* internal function that is known to load a library and whose code assigns a
\* library loaded by literal name to the formal parameter in that position:
\* <<statement of the call, position of the argument, statement of the load>>
HelperLoads ==
    {t \in (1..(SiteIndex - 1)) \X (1..2) \X (1..3) :
        /\ SiteCode[t[1]].kind = "call"
        /\ SiteCode[t[1]].function # SiteFunctionName
        /\ SiteCode[t[1]].function \in load_lib_functions
        /\ t[2] \in DOMAIN SiteCode[t[1]].params
        /\ SiteCode[t[1]].params[t[2]] \in {SiteCall.h, <<"&">> \o SiteCall.h}
        /\ t[3] \in DOMAIN decompile_function(SiteCode[t[1]].function).body
        /\ decompile_function(SiteCode[t[1]].function).body[t[3]].kind = "ll"
        /\ decompile_function(SiteCode[t[1]].function).body[t[3]].lhs
              = <<"*">> \o get_function_param(SiteCode[t[1]].function,
                                               decompile_function(SiteCode[t[1]].function),
                                               t[2] - 1)
        /\ IsQuoted(decompile_function(SiteCode[t[1]].function).body[t[3]].arg)}

HelperDll(t) == Unquoted(decompile_function(SiteCode[t[1]].function).body[t[3]].arg)

\* the handle has no assignment of its own before the call, one helper loads it
\* by literal name, and the name argument of the call is a literal
ThroughHelper ==
    /\ HandleAssignments = {}
    /\ HelperLoads # {}
    /\ \A t, u \in HelperLoads : t = u
    /\ IsQuoted(SiteCall.name)

\* C7: a GetProcAddress call whose handle has no library-loading assignment in
\* its own function, but is passed to another internal function G known to load
\* a library, where G assigns the library loaded by the literal name D to the
\* formal parameter in the handle's position, files its name under D.
C7_AsClaimed ==
    [][ (AtCallSite /\ ThroughHelper)
            => \A t \in HelperLoads :
                   api_dict' = WithPair(api_dict, KeyOf(HelperDll(t)), LiteralName) ]_vars

\* the same, for calls that pass no other argument holding the handle's name
\* or held in it before the handle, and that no call of another function known
\* to load a library follows before the site
C7_FirstOverlap ==
    [][ (/\ AtCallSite
         /\ ThroughHelper
         /\ \A t \in HelperLoads : \A k \in 1..(t[2] - 1) :
                ~Overlaps(SiteCall.h, SiteCode[t[1]].params[k])
         /\ \A t \in HelperLoads : \A j \in (t[1] + 1)..(SiteIndex - 1) :
                ~(/\ SiteCode[j].kind = "call"
                  /\ Qualifies(SiteFunctionName, "", SiteCode[j].function)))
            => \A t \in HelperLoads :
                   api_dict' = WithPair(api_dict, KeyOf(HelperDll(t)), LiteralName) ]_vars


-----------------------------------------------------------------------------
(* The work on one GetProcAddress call, a call and a loop iteration at a    *)
(* time.  A frame of the stack is a call in progress, of                    *)
(* __parse_api_params, __enumerate_call_params, __find_h_module or          *)
(* __find_h_module_assignment, with the position its loop has reached.      *)
(* Regex searches and the loops that call nothing but them are single       *)
(* steps.                                                                   *)

MaxDepth == 4     \* frames the stack may hold

Frame(op, function, calling_function, call_context, h_module, offset, call_params, cursor, phase) ==
    [op |-> op, function |-> function, calling_function |-> calling_function,
     call_context |-> call_context, h_module |-> h_module, offset |-> offset,
     call_params |-> call_params, cursor |-> cursor, phase |-> phase,
     external_params |-> NoExternal]

\* the search of a load in the text itself is left out
FindHModule_NoDirect(calling_function, call_context, function, h_module, offset) ==
    Frame("find_h_module", function, calling_function, call_context, h_module, offset,
          <<>>, Len(call_context), "scan")

\* a call of __find_h_module: its loop runs over the calls of call_context,
\* the cursor on the statement looked at next
FindHModule(calling_function, call_context, function, h_module, offset) ==
    Frame("find_h_module", function, calling_function, call_context, h_module, offset,
          <<>>, Len(call_context), "start")

\* a call of __find_h_module_assignment: its loop runs over call_params
FindHModuleAssignment(g, call_params, h_module, offset) ==
    Frame("find_h_module_assignment", g, "", <<>>, h_module, offset, call_params, 1, "scan")

\* the call of __parse_api_params on the call site that is next
ParseApiParams ==
    Frame("parse_api_params", SiteFunctionName, "", <<>>, SiteCall.h, <<>>, <<>>,
          SiteIndex, "wait")

\* the generator __enumerate_call_params(function, external_params): its loops
\* run over the calls to function in its callers
EnumerateCallParams(external_params) ==
    [Frame("enumerate_call_params", SiteFunctionName, "", <<>>, SiteCall.h, <<>>, <<>>,
           1, "scan") EXCEPT !.external_params = external_params]

\* control is back in the loop body of crawl_dynamic_imports, by a return of
\* __parse_api_params, by the end of the generator, or by an exception
BackInLoop ==
    Frame("crawl_dynamic_imports", SiteFunctionName, "", <<>>, SiteCall.h, <<>>, <<>>,
          SiteIndex, "leave")

Top == stack[Len(stack)]
Pop == SubSeq(stack, 1, Len(stack) - 1)
WithTop(frame) == Pop \o <<frame>>
Return(res) == [set |-> TRUE, res |-> res]

\* a step inside the loop body of crawl_dynamic_imports leaves the rest alone
InCallSite == UNCHANGED <<refVars, classifyVars, progVars, envVars, mergeVars, crawlVars>>

\* the calls in progress end, normally or by an exception
EndCalls == stack' = <<BackInLoop>> /\ returned' = NoReturn

\* the calls to function that function_regex finds, caller by caller
CallsTo(function) ==
    Flatten([n \in DOMAIN get_calling_functions(function) |->
                calls_in(function, get_calling_functions(function)[n], n)])

\* what __find_h_module_assignment searches after it found no load assigned to
\* the parameter, searched in the code of g itself
unassigned_search_Callees(g, hmodule_param, hmodule_offset) ==
    IF hmodule_param = None \/ hmodule_param = <<>> THEN <<>>
    ELSE <<FindHModule(g, decompile_function(g).body, "", hmodule_param, hmodule_offset)>>

\* what __find_h_module_assignment searches after it found no load assigned to
\* the parameter: nothing, the loop is left (break) and None returned
unassigned_search(g, hmodule_param, hmodule_offset) == <<>>

\* crawl_dynamic_imports enters its loop body: __parse_api_params is called and
\* calls __find_h_module on the code before the call
EnterCallSite ==
    /\ pc = "crawl"
    /\ sites # <<>>
    /\ stack = <<>>
    /\ stack' = <<ParseApiParams,
                  FindHModule(SiteFunctionName, SubSeq(SiteCode, 1, SiteIndex - 1), "",
                              SiteCall.h, <<>>)>>
    /\ returned' = NoReturn
    /\ InCallSite

\* a call of __find_h_module has begun
InFindHModule == stack # <<>> /\ Top.op = "find_h_module" /\ Top.phase = "start"

\* __find_h_module searches a load assigned to the handle in call_context
SearchDirect ==
    /\ InFindHModule
    /\ LET Direct(lp_lib_filename) ==
               IF lp_lib_filename # NoParam
               THEN stack' = Pop /\ returned' = Return(lp_lib_filename)
               ELSE stack' = WithTop([Top EXCEPT !.phase = "scan"]) /\ returned' = NoReturn
       IN  Direct(find_loadlibrary_assignment(TextPattern(Top.h_module), Top.call_context))
    /\ InCallSite

\* one iteration of the loop of __find_h_module over the internal calls
ScanInternalCall ==
    /\ stack # <<>>
    /\ Top.op = "find_h_module"
    /\ Top.phase = "scan"
    /\ IF Top.cursor = 0
       THEN stack' = Pop /\ returned' = Return(NoParam)
       ELSE IF ~(/\ Top.call_context[Top.cursor].kind = "call"
                 /\ Qualifies(Top.calling_function, Top.function,
                              Top.call_context[Top.cursor].function))
       THEN stack' = WithTop([Top EXCEPT !.cursor = @ - 1]) /\ returned' = NoReturn
       ELSE /\ Len(stack) < MaxDepth
            /\ stack' = WithTop([Top EXCEPT !.phase = "wait"])
                           \o <<FindHModuleAssignment(Top.call_context[Top.cursor].function,
                                                      Top.call_context[Top.cursor].params,
                                                      Top.h_module, Top.offset)>>
            /\ returned' = NoReturn
    /\ InCallSite

\* __find_h_module_assignment has returned to __find_h_module
ResumeScan ==
    /\ stack # <<>>
    /\ Top.op = "find_h_module"
    /\ Top.phase = "wait"
    /\ returned.set
    /\ IF returned.res # NoParam
       THEN stack' = Pop /\ UNCHANGED returned
       ELSE /\ stack' = WithTop([Top EXCEPT !.phase = "scan", !.cursor = @ - 1])
            /\ returned' = NoReturn
    /\ InCallSite

\* the innermost call in progress is one of __find_h_module_assignment
InFindHModuleAssignment == stack # <<>> /\ Top.op = "find_h_module_assignment"

\* one iteration of the loop of __find_h_module_assignment over call_params
NextArgument ==
    /\ InFindHModuleAssignment
    /\ LET Left(frames) ==
               IF frames = <<>> THEN stack' = Pop /\ returned' = Return(NoParam)
               ELSE stack' = Pop \o frames /\ returned' = NoReturn
           Iterated(function_code, o) ==
               IF o.outcome = "raise" THEN EndCalls
               ELSE IF o.outcome = "return"
               THEN stack' = Pop /\ returned' = Return(o.res)
               ELSE IF o.outcome = "next"
               THEN stack' = WithTop([Top EXCEPT !.cursor = @ + 1]) /\ returned' = NoReturn
               ELSE Left(unassigned_search(Top.function,
                                           get_function_param(Top.function, function_code,
                                                              Top.cursor - 1),
                                           Top.offset))
           Decompiled(function_code) ==
               Iterated(function_code,
                        h_module_assignment_at(Top.function, function_code, Top.call_params,
                                               Top.offset, Top.cursor))
       IN  IF Top.cursor > Len(Top.call_params)
           THEN stack' = Pop /\ returned' = Return(NoParam)
           ELSE IF ~Overlaps(Top.h_module, Top.call_params[Top.cursor])
           THEN stack' = WithTop([Top EXCEPT !.cursor = @ + 1]) /\ returned' = NoReturn
           ELSE Decompiled(decompile_function(Top.function))
    /\ InCallSite

\* __find_h_module has returned to __parse_api_params
BackInParseApiParams == stack # <<>> /\ Top.op = "parse_api_params" /\ returned.set

\* __find_h_module has returned to __parse_api_params, which goes through its
\* own loops and returns; the values are added, or the callers are enumerated
ReturnToAnalyzer ==
    /\ BackInParseApiParams
    /\ LET Parsed(p) ==
               IF p.err \/ p.external_params.none \/ HasNoKeys(p.external_params)
               THEN EndCalls
               ELSE stack' = <<EnumerateCallParams(p.external_params)>> /\ returned' = NoReturn
       IN  Parsed(parse_api_params(SiteFunctionName, decompile_function(SiteFunctionName),
                                   SiteIndex))
    /\ InCallSite

\* the generator __enumerate_call_params is at the head of its inner loop
InEnumerateCallParams ==
    stack # <<>> /\ Top.op = "enumerate_call_params" /\ Top.phase = "scan"

\* one iteration of the loops of __enumerate_call_params, on one call to function
NextCallerCall ==
    /\ InEnumerateCallParams
    /\ LET Called(calls, external_params) ==
               IF Top.cursor > Len(calls) THEN EndCalls
               ELSE IF external_params.hModule = 0
               THEN stack' = WithTop([Top EXCEPT !.cursor = @ + 1]) /\ returned' = NoReturn
               ELSE IF external_params.hModule > Len(calls[Top.cursor].function_call_params)
               THEN EndCalls
               ELSE /\ Len(stack) < MaxDepth
                    /\ stack' = WithTop([Top EXCEPT !.phase = "wait"])
                                   \o <<FindHModule(
                                            calls[Top.cursor].calling_function,
                                            calls[Top.cursor].call_context,
                                            Top.function,
                                            calls[Top.cursor].function_call_params[
                                                external_params.hModule],
                                            external_params.offset)>>
                    /\ returned' = NoReturn
       IN  Called(CallsTo(Top.function), Top.external_params)
    /\ InCallSite

\* __find_h_module has returned to __enumerate_call_params, which yields
ResumeCaller ==
    /\ stack # <<>>
    /\ Top.op = "enumerate_call_params"
    /\ Top.phase = "wait"
    /\ returned.set
    /\ stack' = WithTop([Top EXCEPT !.phase = "scan", !.cursor = @ + 1])
    /\ returned' = NoReturn
    /\ InCallSite

\* control is back in the loop body of crawl_dynamic_imports
BackInCrawl == stack # <<>> /\ Top.op = "crawl_dynamic_imports"

\* crawl_dynamic_imports adds what was found to the dictionary and goes on to
\* the next call, or the exception ends the run
LeaveCallSite ==
    /\ BackInCrawl
    /\ ProcessCallSite
    /\ stack' = <<>>
    /\ returned' = NoReturn

\* an enumerator constructed on the database's path, about to crawl
InitResolve ==
    /\ program \in Programs
    /\ db_file = DbWithExtensions
    /\ defined_strings = {s_KERNEL32_DLL}
    /\ conv = [f \in DOMAIN program.funcs |->
                  IF f \in program.thiscall THEN "__thiscall" ELSE "__stdcall"]
    /\ api_db_arg = s_apidb_json
    /\ api_db_path = s_apidb_json
    /\ pc = "ready"
    /\ run = 1
    /\ todo = <<>>
    /\ sites = <<>>
    /\ decompiled_functions = <<>>
    /\ decompiler_calls = [f \in DOMAIN program.funcs |-> 0]
    /\ visited = {}
    /\ first_result = EmptyDict
    /\ api_db = NotLoaded
    /\ db_reads = 0
    /\ api_dict = EmptyDict
    /\ last = NoCall
    /\ stack = <<>>
    /\ returned = NoReturn
    /\ NotClassifying
    /\ NotLocating

NextResolve ==
    \/ BeginCrawl
    \/ FixCallingConvention
    \/ EndFix
    \/ CrawlFunction
    \/ EnterCallSite
    \/ SearchDirect
    \/ ScanInternalCall
    \/ ResumeScan
    \/ NextArgument
    \/ ReturnToAnalyzer
    \/ NextCallerCall
    \/ ResumeCaller
    \/ LeaveCallSite
    \/ Finish

\* The script is one thread of control that the interpreter keeps running: a
\* step that can be taken is taken.  That is weak fairness of every step.  For
\* the five steps whose effect is a whole search, weak fairness is written out
\* as "infinitely often not enabled, or infinitely often taken", with the
\* step's guard for its enabledness: the rest of such a step is an assignment
\* that every state allows.
Scheduling ==
    /\ WF_vars(BeginCrawl)
    /\ WF_vars(FixCallingConvention)
    /\ WF_vars(EndFix)
    /\ WF_vars(CrawlFunction)
    /\ WF_vars(EnterCallSite)
    /\ WF_vars(ScanInternalCall)
    /\ WF_vars(ResumeScan)
    /\ WF_vars(ResumeCaller)
    /\ WF_vars(Finish)
    /\ ([]<>~InFindHModule \/ []<><<SearchDirect>>_vars)
    /\ ([]<>~InFindHModuleAssignment \/ []<><<NextArgument>>_vars)
    /\ ([]<>~BackInParseApiParams \/ []<><<ReturnToAnalyzer>>_vars)
    /\ ([]<>~InEnumerateCallParams \/ []<><<NextCallerCall>>_vars)
    /\ ([]<>~BackInCrawl \/ []<><<LeaveCallSite>>_vars)

SpecResolve == InitResolve /\ [][NextResolve]_vars /\ Scheduling

\* what the calls in progress return is what the resolver computes in one piece
ResolveAgrees ==
    /\ (stack # <<>> /\ Top.op = "parse_api_params" /\ returned.set)
          => returned.res = find_h_module(SiteFunctionName,
                                          SubSeq(SiteCode, 1, SiteIndex - 1), "",
                                          SiteCall.h, <<>>).res
    /\ (stack # <<>> /\ Top.op = "enumerate_call_params" /\ Top.phase = "wait" /\ returned.set)
          => returned.res
                = yield_of(SiteFunctionName, Top.external_params,
                           CallsTo(SiteFunctionName)[Top.cursor]).lp_lib_filename

\* the calls in progress never nest deeper than the loop body, a search of the
\* handle and a search in a helper
StackWithinDepth == Len(stack) < MaxDepth


\* function f holds a call to function g
Calls(f, g) ==
    \E i \in OfKind(program.funcs[f].body, "call") : program.funcs[f].body[i].function = g

\* C8: crawl_dynamic_imports terminates, by returning or by an exception that
\* nothing catches, on every program, those included in which a function calls
\* itself, two functions call each other, or three functions pass the handle
\* round a cycle: the work on each call site ends after finitely many steps.
C8_Terminates == <>(pc \in {"done", "IndexError"} /\ stack = <<>>)

\* crawl_dynamic_imports has returned on a program whose three functions pass
\* the handle round a cycle, after the search of the handle went into FUN_2
C8_Witness ==
    /\ pc = "done"
    /\ stack = <<>>
    /\ program.fails = {}
    /\ Calls("FUN_1", "FUN_2")
    /\ Calls("FUN_2", "FUN_3")
    /\ Calls("FUN_3", "FUN_1")
    /\ \E site \in visited : site[1] = "FUN_1" /\ site[2] > 0
    /\ "FUN_2" \in DOMAIN decompiled_functions
    /\ "FUN_3" \in DOMAIN decompiled_functions


-----------------------------------------------------------------------------
(* Decompiler failures, checked under Spec *)

\* the prototype of f followed by an empty body
PrototypeOnly(f) == [sig |-> Signature(Parameters(f)), body |-> <<>>]

\* the GetProcAddress calls in the code the cache gives for f
SitesOf(f) ==
    {<<f, i>> : i \in {j \in DOMAIN decompile_function(f).body :
                          decompile_function(f).body[j].kind = "gpa"}}

\* this step requests a function the decompiler fails on through the cache
CachesFailure ==
    \E f \in program.fails :
        f \notin DOMAIN decompiled_functions /\ f \in DOMAIN decompiled_functions'

\* what holds in every state of a run in which the decompiler fails
FailuresDegrade ==
    /\ \A f \in DOMAIN decompiled_functions \cap program.fails :
           decompiled_functions[f].code = PrototypeOnly(f)
    /\ \A f \in program.fails \ program.thiscall : conv[f] = "__stdcall"
    /\ (pc \in {"crawl", "done", "IndexError"} /\ program.size = 32)
           => \A f \in load_lib_functions : <<f, 0>> \in visited
    /\ pc = "done"
           => \A f \in Range(dyn_imp_functions) :
                  f \in DOMAIN decompiled_functions /\ SitesOf(f) \subseteq visited

\* what a step does that meets a decompiler failure
FailureSteps ==
    /\ (pc = "fix" /\ todo # <<>> /\ Head(todo) \in program.fails)
           => pc' = "fix" /\ todo' = Tail(todo) /\ conv' = conv
    /\ (pc = "crawl" /\ CachesFailure)
           => /\ pc' = "crawl"
              /\ \/ sites = <<>> /\ todo' = Tail(todo) /\ sites' = <<>>
                 \/ sites # <<>> /\ sites' = Tail(sites) /\ visited' = visited \cup {Head(sites)}

\* C9: a function the decompiler fails on is cached as its prototype followed
\* by an empty body; the step that meets the failure does not end the run, and
\* a run that returns has processed every function referring to GetProcAddress
\* and every call site; the calling convention pass leaves the convention of
\* such a function as it was and goes on to the remaining candidates.
C9_FailuresDegrade == []FailuresDegrade /\ [][FailureSteps]_vars


\* a run on a 32-bit program has returned: the decompiler failed on FUN_2 in the
\* calling convention pass, which went on to FUN_3, and again when the search
\* of the handle of the call in FUN_1 asked the cache for FUN_2; the call in
\* FUN_3 was processed after that and added CreateFileW under kernel32.dll
C9_Witness ==
    /\ pc = "done"
    /\ program.fails = {"FUN_2"}
    /\ program.size = 32
    /\ {"FUN_2", "FUN_3"} \subseteq load_lib_functions
    /\ {<<"FUN_2", 0>>, <<"FUN_3", 0>>, <<"FUN_1", 2>>, <<"FUN_3", 2>>} \subseteq visited
    /\ "FUN_2" \in DOMAIN decompiled_functions
    /\ decompiled_functions["FUN_2"].code = PrototypeOnly("FUN_2")
    /\ decompiler_calls["FUN_2"] = 2
    /\ conv["FUN_2"] = "__stdcall"
    /\ s_kernel32_dll \in DOMAIN api_dict
    /\ s_CreateFileW \in api_dict[s_kernel32_dll]


-----------------------------------------------------------------------------
(* The database argument, checked under Spec *)

\* no database file is available: no /apidb argument, or a path that is no file
NoDatabaseFile == api_db_arg = None \/ ~isfile(api_db_arg)

\* the database is never opened, and a call of __update_api_dict without a dll
\* leaves the dictionary as it was
RunsWithoutDatabase ==
    /\ api_db = NotLoaded
    /\ db_reads = 0
    /\ (last.called /\ last.dll = None) => api_dict = last.before

\* C10: when no database file is available, because no path is given or the
\* path is not an existing file, the enumerator is still constructed and runs:
\* no error is raised by the construction, the database is never opened, and a
\* call site whose dll is unresolved leaves the dictionary unchanged.
C10_AsClaimed ==
    (pc # "new" /\ NoDatabaseFile) => (pc # "TypeError" /\ RunsWithoutDatabase)

\* the same, for a path that is given and is not an existing file
C10_MissingFile ==
    (pc # "new" /\ api_db_arg # None /\ ~isfile(api_db_arg))
        => (pc # "TypeError" /\ RunsWithoutDatabase)

-----------------------------------------------------------------------------
(* The dispatch on what __parse_api_params returns, checked under Spec *)

\* what __parse_api_params returns for the call site that is next
SiteParse ==
    parse_api_params(SiteFunctionName, decompile_function(SiteFunctionName), SiteIndex)

\* a value is missing and external_params is the empty dictionary
NeitherExternal ==
    /\ ~SiteParse.err
    /\ ~SiteParse.external_params.none
    /\ SiteParse.external_params.lpLibFileName = 0
    /\ SiteParse.external_params.lpProcName = 0
    /\ SiteParse.external_params.hModule = 0

\* the dictionary is as it was, or holds one more pair whose dll is one of the
\* candidates the database file lists for the name
OnlyDatabaseSupplies(name) ==
    \/ api_dict' = api_dict
    \/ /\ api_db_path # None
       /\ name \in DOMAIN db_file
       /\ \E i \in DOMAIN db_file[name] :
              api_dict' = WithPair(api_dict, KeyOf(db_file[name][i]), name)

\* C11: at a call site where a value is missing and none is tied to a formal
\* parameter of the enclosing function, no error is raised; if the name is
\* unresolved nothing is merged and the dictionary stays as it is, whether or
\* not the dll was resolved; if the name is resolved the dll is not, and
\* __update_api_dict is called exactly once, without a dll, so that only the
\* database can supply one.
C11_NeitherExternal ==
    [][ (AtCallSite /\ NeitherExternal)
            => /\ pc' = "crawl"
               /\ IF SiteParse.api_name = None
                  THEN api_dict' = api_dict /\ last' = last /\ db_reads' = db_reads
                  ELSE /\ SiteParse.api_dll = None
                       /\ last'.n = last.n + 1
                       /\ last'.dll = None
                       /\ last'.api = SiteParse.api_name
                       /\ OnlyDatabaseSupplies(SiteParse.api_name) ]_vars

\* the call GetProcAddress(hModule, "CreateFileW") of a function that assigns
\* nothing to hModule has been processed: one merge without a dll, in which the
\* database and the string KERNEL32.DLL supplied kernel32.dll
C11_Witness ==
    /\ pc = "crawl"
    /\ program.funcs["FUN_1"].body = <<GPA(s_hModule, Q(s_CreateFileW))>>
    /\ <<"FUN_1", 1>> \in visited
    /\ last.called
    /\ last.n = 1
    /\ last.dll = None
    /\ last.api = s_CreateFileW
    /\ db_reads = 1
    /\ api_dict = (s_kernel32_dll :> {s_CreateFileW})

\* the call GetProcAddress(hModule, local_14) that follows a load of shell32.dll
\* into hModule has been processed: the dll was resolved, the name was not, and
\* nothing was merged
C11_NameUnresolved ==
    /\ pc = "crawl"
    /\ program.funcs["FUN_1"].body
          = <<LL(s_hModule, Q(s_shell32_dll)), GPA(s_hModule, s_local_14)>>
    /\ <<"FUN_1", 2>> \in visited
    /\ ~last.called
    /\ api_dict = EmptyDict

-----------------------------------------------------------------------------
(* The propagation to the callers, checked under Spec *)

\* a value is missing and external_params has a key
ExternalParams ==
    /\ ~SiteParse.err
    /\ ~SiteParse.external_params.none
    /\ \/ SiteParse.external_params.lpLibFileName # 0
       \/ SiteParse.external_params.lpProcName # 0
       \/ SiteParse.external_params.hModule # 0

\* what __enumerate_call_params yields for the call site that is next, one
\* pair for each call to the enclosing function, caller by caller
SiteYields == enumerate_call_params(SiteFunctionName, SiteParse.external_params)

\* the dictionary after the pair (dll, name) is merged into it, the dll looked
\* up in the database where it is None
WithMerged(dict, dll, name) ==
    LET Filed(d) == IF d = None THEN dict ELSE WithPair(dict, KeyOf(d), name)
    IN  IF dll # None THEN Filed(dll)
        ELSE IF api_db_path = None THEN dict
        ELSE Filed(DisambiguateDll(db_file, defined_strings, name))

\* the dictionary after each substitution has been merged on its own: a value
\* the call does not supply is the one known at the call site, if any
RECURSIVE EachOnItsOwn(_, _, _, _)
EachOnItsOwn(dict, yields, api_dll, api_name) ==
    IF yields = <<>> THEN dict
    ELSE LET y == Head(yields)
             dll == IF is_literal(y.lp_lib_filename) THEN y.lp_lib_filename.value
                    ELSE api_dll
             name == IF is_literal(y.lp_proc_name) THEN y.lp_proc_name.value
                     ELSE api_name
         IN  EachOnItsOwn(IF name # None THEN WithMerged(dict, dll, name) ELSE dict,
                          Tail(yields), api_dll, api_name)

\* C12: at a call site whose missing values are tied to formal parameters, each
\* call to the enclosing function in each referencing function is visited
\* once; the actual arguments at the recorded positions are substituted; every
\* substitution that gives a known name is merged, and a substitution that
\* gives no known name adds nothing.
C12_AsClaimed ==
    [][ (AtCallSite /\ ExternalParams /\ ~SiteYields.err)
            => /\ pc' = "crawl"
               /\ api_dict' = EachOnItsOwn(api_dict, SiteYields.yields,
                                           SiteParse.api_dll, SiteParse.api_name) ]_vars

\* every call supplies the values that the first call supplies
UniformYields ==
    \A i \in DOMAIN SiteYields.yields :
        /\ is_literal(SiteYields.yields[i].lp_proc_name)
              = is_literal(SiteYields.yields[1].lp_proc_name)
        /\ is_literal(SiteYields.yields[i].lp_lib_filename)
              = is_literal(SiteYields.yields[1].lp_lib_filename)

\* the same, where every call supplies the values that the first call supplies
C12_UniformCalls ==
    [][ (AtCallSite /\ ExternalParams /\ ~SiteYields.err /\ UniformYields)
            => /\ pc' = "crawl"
               /\ api_dict' = EachOnItsOwn(api_dict, SiteYields.yields,
                                           SiteParse.api_dll, SiteParse.api_name) ]_vars

\* the call site of FUN_1(param_1, param_2) has been processed in a program
\* whose FUN_3 calls FUN_1(hLib, "CreateFileW") after loading kernel32.dll and
\* FUN_1(hLib, param_1) after loading user32.dll: CreateFileW is filed under
\* user32.dll as well
C12_StaleName ==
    /\ pc = "crawl"
    /\ program.funcs["FUN_3"].body = StaleCalls
    /\ program.funcs["FUN_1"].body = <<GPA(s_param_1, s_param_2)>>
    /\ <<"FUN_1", 1>> \in visited
    /\ api_dict = (s_kernel32_dll :> {s_CreateFileW}) @@ (s_user32_dll :> {s_CreateFileW})

-----------------------------------------------------------------------------
(* The direct assignment search, checked under Spec *)

\* the loads of a library by literal name into the local that statement j
\* copies into the handle
LoadsCopiedBy(j) ==
    {k \in 1..(j - 1) : /\ SiteCode[k].kind = "ll"
                        /\ SiteCode[k].lhs = SiteCode[j].rhs
                        /\ IsQuoted(SiteCode[k].arg)}

\* every assignment to the handle before the call brings it the result of a
\* library-loading call on a literal, directly or as the copy of a local that
\* was loaded before, and the name argument of the call is a literal
ReachedByLoads ==
    /\ HandleAssignments # {}
    /\ \A j \in HandleAssignments :
          \/ SiteCode[j].kind = "ll" /\ IsQuoted(SiteCode[j].arg)
          \/ /\ SiteCode[j].kind = "assign"
             /\ IsIdentifier(SiteCode[j].rhs)
             /\ LoadsCopiedBy(j) # {}
    /\ IsQuoted(SiteCall.name)

\* the dll of the load that the assignment closest to the call brings to the handle
ClosestDll ==
    LET Brought(j) ==
            IF SiteCode[j].kind = "ll" THEN Unquoted(SiteCode[j].arg)
            ELSE Unquoted(SiteCode[Max(LoadsCopiedBy(j))].arg)
    IN  Brought(Max(HandleAssignments))

\* C13: when several library-loading calls reach the handle before the call,
\* assigned to it directly or to a local that is copied into it later, the dll
\* is the argument of the one whose assignment to the handle is closest to the
\* call: an older copy never overrides a later direct assignment.
C13_AsClaimed ==
    [][ (AtCallSite /\ ReachedByLoads)
            => api_dict' = WithPair(api_dict, KeyOf(ClosestDll), LiteralName) ]_vars

\* the same, where no direct load into the handle follows a copy into it
C13_NoLoadAfterCopy ==
    [][ (/\ AtCallSite
         /\ ReachedByLoads
         /\ \A j, k \in HandleAssignments :
                (SiteCode[j].kind = "assign" /\ SiteCode[k].kind = "ll") => k < j)
            => api_dict' = WithPair(api_dict, KeyOf(ClosestDll), LiteralName) ]_vars

\* the call of `hLib = LoadLibraryA("shell32.dll"); hModule = hLib;
\* hModule = LoadLibraryA("USER32"); GetProcAddress(hModule, "IsUserAnAdmin");`
\* has been processed: the name is filed under shell32.dll
C13_OlderCopyWins ==
    /\ pc = "crawl"
    /\ program.funcs["FUN_1"].body
          = <<LL(s_hLib, Q(s_shell32_dll)), Assign(s_hModule, s_hLib),
              LL(s_hModule, Q(s_USER32)), GPA(s_hModule, Q(s_IsUserAnAdmin))>>
    /\ <<"FUN_1", 4>> \in visited
    /\ api_dict = (s_shell32_dll :> {s_IsUserAnAdmin})

-----------------------------------------------------------------------------
(* The order of the handle's sources, checked under SpecResolve *)

\* the load the direct search finds for the handle of frame k, NoParam if none
DirectOf(k) ==
    find_loadlibrary_assignment(TextPattern(stack[k].h_module), stack[k].call_context)

\* statement j of the text of frame k is a call whose callee the scan looks into
ExaminedCall(k, j) ==
    /\ stack[k].call_context[j].kind = "call"
    /\ Qualifies(stack[k].calling_function, stack[k].function,
                 stack[k].call_context[j].function)

\* a callee is being examined only for a handle that has no load of its own in
\* the text; it is the callee of the call the scan stands on, and every call
\* closer to the point of use whose callee the scan looks into gave nothing
ExaminedInOrder ==
    \A k \in 2..Len(stack) :
        stack[k].op = "find_h_module_assignment"
            => /\ stack[k - 1].op = "find_h_module"
               /\ DirectOf(k - 1) = NoParam
               /\ stack[k - 1].cursor \in DOMAIN stack[k - 1].call_context
               /\ ExaminedCall(k - 1, stack[k - 1].cursor)
               /\ stack[k].function
                     = stack[k - 1].call_context[stack[k - 1].cursor].function
               /\ stack[k].call_params
                     = stack[k - 1].call_context[stack[k - 1].cursor].params
               /\ \A j \in (stack[k - 1].cursor + 1)..Len(stack[k - 1].call_context) :
                      ExaminedCall(k - 1, j)
                          => find_h_module_assignment(
                                 stack[k - 1].call_context[j].function,
                                 stack[k - 1].call_context[j].params,
                                 stack[k - 1].h_module, stack[k - 1].offset).res = NoParam

\* the handle of the call site that is next has a load on a literal that the
\* direct search finds, and the name argument is a literal
SiteResolvedDirectly ==
    /\ is_literal(find_loadlibrary_assignment(TextPattern(SiteCall.h),
                                              SubSeq(SiteCode, 1, SiteIndex - 1)))
    /\ IsQuoted(SiteCall.name)

\* what a step of the search does with a result
OrderSteps ==
    /\ (InFindHModule /\ DirectOf(Len(stack)) # NoParam)
           => stack' = Pop /\ returned' = Return(DirectOf(Len(stack)))
    /\ (/\ stack # <<>> /\ Top.op = "find_h_module" /\ Top.phase = "wait"
        /\ returned.set /\ returned.res # NoParam)
           => stack' = Pop /\ returned' = returned
    /\ (/\ stack # <<>> /\ Top.op = "find_h_module" /\ Top.phase = "wait"
        /\ returned.set /\ returned.res = NoParam)
           => stack' = WithTop([Top EXCEPT !.phase = "scan", !.cursor = @ - 1])
    /\ (BackInCrawl /\ SiteResolvedDirectly)
           => /\ decompiled_functions' = decompiled_functions
              /\ decompiler_calls' = decompiler_calls

\* C14: the sources of a handle are tried in a fixed order.  If the direct
\* search finds a library-loading assignment to the handle in the preceding
\* text, that is the result and no callee is decompiled or examined.
\* Otherwise the internal calls of the preceding text are examined from the
\* one closest to the point of use backwards, and the result is that of the
\* first callee that gives one: the calls before it are not looked at.
C14_FixedOrder == []ExaminedInOrder /\ [][OrderSteps]_vars

\* the call of `FUN_3(&hModule); FUN_2(&hModule); GetProcAddress(hModule,
\* "GetUserNameA");` has been processed on a 64-bit program in which FUN_2
\* loads advapi32.dll and FUN_3 kernel32.dll into their parameter: the name is
\* filed under advapi32.dll, and FUN_3 was never decompiled
C14_Witness ==
    /\ pc = "crawl"
    /\ stack = <<>>
    /\ program.size = 64
    /\ program.funcs["FUN_1"].body
          = <<Call("FUN_3", <<s_ref_hModule>>), Call("FUN_2", <<s_ref_hModule>>),
              GPA(s_hModule, Q(s_GetUserNameA))>>
    /\ program.funcs["FUN_2"].body = <<LL(s_deref_param_1, Q(s_advapi32_dll))>>
    /\ program.funcs["FUN_3"].body = EarlierLoad
    /\ <<"FUN_1", 3>> \in visited
    /\ api_dict = (s_advapi32_dll :> {s_GetUserNameA})
    /\ "FUN_2" \in DOMAIN decompiled_functions
    /\ "FUN_3" \notin DOMAIN decompiled_functions
    /\ decompiler_calls["FUN_3"] = 0

-----------------------------------------------------------------------------
(* The callees the propagation passes over, checked under SpecResolve *)

\* the callee of a call is one the propagation must not look into: the
\* function holding the GetProcAddress call, the function whose text is
\* scanned, a name without a function, or a function referring to no
\* library-loading API
PassedOver(k, called_function_name) ==
    \/ called_function_name = SiteFunctionName
    \/ called_function_name = stack[k].function
    \/ called_function_name = stack[k].calling_function
    \/ called_function_name \notin DOMAIN program.funcs
    \/ \A i \in DOMAIN Repair(program.funcs[called_function_name].body) :
           Repair(program.funcs[called_function_name].body)[i].kind # "ll"

\* no call of __find_h_module_assignment in progress is on such a callee
NoneExaminedWrongly ==
    \A k \in 2..Len(stack) :
        stack[k].op = "find_h_module_assignment"
            => ~PassedOver(k - 1, stack[k].function)

\* the scan stands on a call to such a callee
AtPassedOver ==
    /\ stack # <<>>
    /\ Top.op = "find_h_module"
    /\ Top.phase = "scan"
    /\ Top.cursor > 0
    /\ Top.call_context[Top.cursor].kind = "call"
    /\ PassedOver(Len(stack), Top.call_context[Top.cursor].function)

\* the functions the work on the call site has added to the decompilation cache
NewlyDecompiled == DOMAIN decompiled_functions' \ DOMAIN decompiled_functions

\* such a call is skipped and the scan goes on with the call before it; the
\* functions decompiled for a call site are callers of its function or callees
\* the propagation may look into
PassOverSteps ==
    /\ AtPassedOver => stack' = WithTop([Top EXCEPT !.cursor = @ - 1])
    /\ BackInCrawl
          => \A g \in NewlyDecompiled :
                 \/ g \in Range(get_calling_functions(SiteFunctionName))
                 \/ \E f \in DOMAIN program.funcs : ~PassedOver(Len(stack), g) /\ Calls(f, g)

\* C15: while a handle is propagated, a callee is never decompiled or searched
\* if it is the function holding the GetProcAddress call, the calling
\* function whose text is scanned, a name for which no function exists, or a
\* function outside the set of those referring to a library-loading API: the
\* call is skipped and the scan goes on with the next call.
C15_PassedOver == []NoneExaminedWrongly /\ [][PassOverSteps]_vars

\* the call of `FUN_3(&hModule); FUN_2(&hModule); GetProcAddress(hModule,
\* "GetUserNameA");` has been processed on a 64-bit program whose FUN_2 loads
\* no library and whose FUN_3 loads kernel32.dll into its parameter: FUN_2 was
\* passed over and never decompiled, and the name is filed under kernel32.dll
C15_Witness ==
    /\ pc = "crawl"
    /\ stack = <<>>
    /\ program.size = 64
    /\ program.funcs["FUN_1"].body
          = <<Call("FUN_3", <<s_ref_hModule>>), Call("FUN_2", <<s_ref_hModule>>),
              GPA(s_hModule, Q(s_GetUserNameA))>>
    /\ program.funcs["FUN_2"].body = <<>>
    /\ <<"FUN_1", 3>> \in visited
    /\ api_dict = (s_kernel32_dll :> {s_GetUserNameA})
    /\ "FUN_3" \in DOMAIN decompiled_functions
    /\ "FUN_2" \notin DOMAIN decompiled_functions

-----------------------------------------------------------------------------
(* The search inside a callee, checked under Spec *)

\* the statements of the code the cache gives for function f
CodeOf(f) == decompile_function(f).body

\* the formal parameter of f at position i, as the code of f names it
FormalOf(f, i) == get_function_param(f, decompile_function(f), i - 1)

\* function f refers to a library-loading API
LoadsALibrary(f) ==
    /\ f \in DOMAIN program.funcs
    /\ \E i \in DOMAIN Repair(program.funcs[f].body) :
           Repair(program.funcs[f].body)[i].kind = "ll"

\* the handle reaches a load through two calls: <<call in the site's text,
\* position of the handle in it, call in the callee's text, position of the
\* callee's parameter in it, load in the second callee's text>>.  The site's
\* function F passes the handle, or its address, to G; G assigns nothing to that
\* parameter and passes it to H; H loads a library by literal name into its own
\* parameter.
TwoHops ==
    {t \in (1..(SiteIndex - 1)) \X (1..2) \X (1..3) \X (1..2) \X (1..3) :
        LET call == SiteCode[t[1]]
            G == call.function
            hop == CodeOf(G)[t[3]]
            H == hop.function
            load == CodeOf(H)[t[5]]
        IN  /\ call.kind = "call"
            /\ G # SiteFunctionName
            /\ LoadsALibrary(G)
            /\ t[2] \in DOMAIN call.params
            /\ call.params[t[2]] \in {SiteCall.h, <<"&">> \o SiteCall.h}
            /\ \A k \in 1..(t[2] - 1) : ~Overlaps(SiteCall.h, call.params[k])
            /\ t[3] \in DOMAIN CodeOf(G)
            /\ hop.kind = "call"
            /\ H \notin {SiteFunctionName, G}
            /\ LoadsALibrary(H)
            /\ \A i \in DOMAIN CodeOf(G) :
                   CodeOf(G)[i].kind \in {"ll", "assign"}
                       => ~Contains(CodeOf(G)[i].lhs, FormalOf(G, t[2]))
            /\ t[4] \in DOMAIN hop.params
            /\ hop.params[t[4]] = FormalOf(G, t[2])
            /\ t[5] \in DOMAIN CodeOf(H)
            /\ load.kind = "ll"
            /\ load.lhs = <<"*">> \o FormalOf(H, t[4])
            /\ IsQuoted(load.arg)}

\* the handle is no parameter of the site's function and has no assignment of
\* its own; one call before the site passes it on, and the name is a literal
ThroughTwoCalls ==
    /\ HandleAssignments = {}
    /\ TwoHops # {}
    /\ \A i \in 1..(SiteIndex - 1) :
           SiteCode[i].kind = "call" => \E t \in TwoHops : t[1] = i
    /\ \A p \in Range(enumerate_function_params(SiteFunctionName,
                                                 decompile_function(SiteFunctionName))) :
           ~Contains(SiteCall.h, p)
    /\ IsQuoted(SiteCall.name)

\* C16 as stated: a handle that F passes to G, which passes its parameter to
\* H, where H assigns LoadLibrary("D") to its own parameter, resolves to D at
\* the call site of F.
C16_AsClaimed ==
    [][ (AtCallSite /\ ThroughTwoCalls)
            => \A t \in TwoHops :
                   api_dict' = WithPair(api_dict,
                                        KeyOf(Unquoted(CodeOf(CodeOf(SiteCode[t[1]].function)[t[3]]
                                                                  .function)[t[5]].arg)),
                                        LiteralName) ]_vars

\* C16: inside a callee only the direct assignment search is made, on the
\* matched formal parameter; the callee's own calls are not followed.  A handle
\* that F passes to G, which passes its parameter to H, where H assigns
\* LoadLibrary("D") to its own parameter, is unresolved at the call site of F:
\* its name is merged without a dll, and H is not decompiled for it.
C16_OneHop ==
    [][ (AtCallSite /\ ThroughTwoCalls)
            => /\ pc' = "crawl"
               /\ last'.n = last.n + 1
               /\ last'.dll = None
               /\ last'.api = LiteralName
               /\ OnlyDatabaseSupplies(LiteralName)
               /\ \A t \in TwoHops :
                      CodeOf(SiteCode[t[1]].function)[t[3]].function \notin NewlyDecompiled ]_vars

\* the call of `FUN_2(&hModule); GetProcAddress(hModule, "GetUserNameA");` has
\* been processed on a 64-bit program whose FUN_2 loads shell32.dll into a
\* local and calls FUN_3(param_1), and whose FUN_3 loads kernel32.dll into its
\* parameter: the name was merged without a dll and the dictionary is empty
C16_Witness ==
    /\ pc = "crawl"
    /\ program.size = 64
    /\ program.funcs["FUN_1"].body
          = <<Call("FUN_2", <<s_ref_hModule>>), GPA(s_hModule, Q(s_GetUserNameA))>>
    /\ program.funcs["FUN_2"].body = PassesOn
    /\ program.funcs["FUN_3"].body = EarlierLoad
    /\ <<"FUN_1", 2>> \in visited
    /\ last.called
    /\ last.dll = None
    /\ last.api = s_GetUserNameA
    /\ api_dict = EmptyDict
    /\ "FUN_2" \in DOMAIN decompiled_functions
    /\ "FUN_3" \notin DOMAIN decompiled_functions

-----------------------------------------------------------------------------
(* The dll name a callee receives as a parameter, checked under Spec *)

\* the handle reaches a load whose dll name is a formal parameter of the
\* callee: <<call in the site's text, position of the handle in it, load in the
\* callee's text, position k of the formal parameter the load names>>
ParamLoads ==
    {t \in (1..(SiteIndex - 1)) \X (1..2) \X (1..3) \X (1..2) :
        LET call == SiteCode[t[1]]
            G == call.function
            load == CodeOf(G)[t[3]]
            formals == enumerate_function_params(G, decompile_function(G))
        IN  /\ call.kind = "call"
            /\ G # SiteFunctionName
            /\ LoadsALibrary(G)
            /\ t[2] \in DOMAIN call.params
            /\ call.params[t[2]] \in {SiteCall.h, <<"&">> \o SiteCall.h}
            /\ \A k \in 1..(t[2] - 1) : ~Overlaps(SiteCall.h, call.params[k])
            /\ t[3] \in DOMAIN CodeOf(G)
            /\ load.kind = "ll"
            /\ load.lhs = <<"*">> \o FormalOf(G, t[2])
            /\ \A i \in DOMAIN CodeOf(G) :
                   (CodeOf(G)[i].kind \in {"ll", "assign"} /\ i # t[3])
                       => ~Contains(CodeOf(G)[i].lhs, FormalOf(G, t[2]))
            /\ t[4] \in DOMAIN formals
            /\ load.arg = formals[t[4]]
            /\ \A k \in 1..(t[4] - 1) : ~Contains(load.arg, formals[k])}

\* the handle is no parameter of the site's function and has no assignment of
\* its own; the one call before the site passes it to such a callee, and the
\* name is a literal
ThroughParamLoad ==
    /\ HandleAssignments = {}
    /\ ParamLoads # {}
    /\ \A t, u \in ParamLoads : t = u
    /\ \A i \in 1..(SiteIndex - 1) :
           SiteCode[i].kind = "call" => \E t \in ParamLoads : t[1] = i
    /\ \A p \in Range(enumerate_function_params(SiteFunctionName,
                                                 decompile_function(SiteFunctionName))) :
           ~Contains(SiteCall.h, p)
    /\ IsQuoted(SiteCall.name)

\* the k-th actual argument of the call of t
ActualOf(t) == SiteCode[t[1]].params[t[4]]

\* the call of t passes at least k arguments
HasActual(t) == t[4] \in DOMAIN SiteCode[t[1]].params

\* C17 as stated: the dll is the expression built from the k-th actual
\* argument of the call to G, and a call with fewer arguments leaves the handle
\* unresolved without an error.
C17_AsClaimed ==
    [][ (AtCallSite /\ ThroughParamLoad)
            => \A t \in ParamLoads :
                   /\ pc' = "crawl"
                   /\ IF HasActual(t) /\ is_literal(StringParam(ActualOf(t)))
                      THEN api_dict' = WithPair(api_dict,
                                                KeyOf(StringParam(ActualOf(t)).value),
                                                LiteralName)
                      ELSE HasActual(t) \/ (last'.called /\ last'.dll = None) ]_vars

\* the part of C17 the code keeps: when the call to G passes a k-th argument,
\* no error is raised, and a literal in that position is the dll the name is
\* filed under
C17_EnoughArguments ==
    [][ (AtCallSite /\ ThroughParamLoad)
            => \A t \in ParamLoads :
                   HasActual(t)
                       => /\ pc' = "crawl"
                          /\ is_literal(StringParam(ActualOf(t)))
                                 => api_dict' = WithPair(api_dict,
                                                         KeyOf(StringParam(ActualOf(t)).value),
                                                         LiteralName) ]_vars

\* the part of C17 the code does not keep: a call to G with fewer arguments
\* than the position of the parameter ends the run with an IndexError
C17_FewerArguments ==
    [][ (AtCallSite /\ ThroughParamLoad)
            => \A t \in ParamLoads :
                   ~HasActual(t) => pc' = "IndexError" /\ api_dict' = api_dict ]_vars

\* the run on `FUN_2(&hModule); GetProcAddress(hModule, "GetUserNameA");`, whose
\* FUN_2 is `*param_1 = LoadLibraryA(param_2);`, has ended with an IndexError
C17_IndexError ==
    /\ pc = "IndexError"
    /\ program.funcs["FUN_1"].body
          = <<Call("FUN_2", <<s_ref_hModule>>), GPA(s_hModule, Q(s_GetUserNameA))>>
    /\ program.funcs["FUN_2"].body = <<LL(s_deref_param_1, s_param_2)>>

\* the call that follows `FUN_2(&hModule, "advapi32.dll");` has filed
\* GetUserNameA under advapi32.dll, the second argument of the call
C17_SecondActual ==
    /\ pc = "crawl"
    /\ program.funcs["FUN_1"].body
          = <<Call("FUN_2", <<s_ref_hModule, <<" ">> \o Q(s_advapi32_dll)>>),
              GPA(s_hModule, Q(s_GetUserNameA))>>
    /\ program.funcs["FUN_2"].body = <<LL(s_deref_param_1, s_param_2)>>
    /\ last.called
    /\ last.dll = s_advapi32_dll
    /\ api_dict = (s_advapi32_dll :> {s_GetUserNameA})

-----------------------------------------------------------------------------
(* The Name Resolver, checked under Spec *)

\* the name argument of the call, as an Expression
SiteProcName == StringParam(Strip(SiteCall.name))

\* the handle is assigned before the call by library-loading calls only, the
\* closest of them on a literal
HandleLiteral ==
    /\ HandleAssignments # {}
    /\ \A j \in HandleAssignments : SiteCode[j].kind = "ll"
    /\ IsQuoted(SiteCode[Max(HandleAssignments)].arg)

\* the literal an argument list pairs with v: the arguments are read in order,
\* and the answer is given at the first argument at which an argument holding
\* v has been read and the last argument read that does not hold v is a literal
PairedLiteral(params, v) ==
    LET Others(p) == {q \in 1..p : ~Contains(params[q], v)}
        ok == {p \in DOMAIN params :
                  /\ \E q \in 1..p : Contains(params[q], v)
                  /\ Others(p) # {}
                  /\ is_literal(StringParam(params[Max(Others(p))]))}
    IN  IF ok = {} THEN NoParam ELSE StringParam(params[Max(Others(Min(ok)))])

\* the calls before the site to a string or memory copy function whose
\* arguments pair a literal with v
CopiesOf(v) ==
    {j \in 1..(SiteIndex - 1) : /\ SiteCode[j].kind = "call"
                                /\ SiteCode[j].function \in CopyNames
                                /\ PairedLiteral(SiteCode[j].params, v) # NoParam}

\* the calls before the site, to any function but the site's, whose arguments
\* hold both an argument matching v and a string literal
CallsHolding(v) ==
    {j \in 1..(SiteIndex - 1) :
        /\ IsFunctionCall(SiteCode[j])
        /\ SiteCode[j].function # SiteFunctionName
        /\ \E q \in DOMAIN SiteCode[j].params : Contains(SiteCode[j].params[q], v)
        /\ \E q \in DOMAIN SiteCode[j].params : is_literal(StringParam(SiteCode[j].params[q]))}

LiteralsOf(params) ==
    {StringParam(params[q]).value : q \in {i \in DOMAIN params : is_literal(StringParam(params[i]))}}

\* C18 as stated: a name given by reference v resolves to the literal of the
\* most recent call, to an internal function or a copy function other than the
\* site's function, whose arguments hold both an argument matching v and a
\* string literal.
C18_AsClaimed ==
    [][ (/\ AtCallSite
         /\ HandleLiteral
         /\ ~is_literal(SiteProcName)
         /\ CallsHolding(SiteProcName.name) # {})
            => \E n \in LiteralsOf(SiteCode[Max(CallsHolding(SiteProcName.name))].params) :
                   api_dict' = WithPair(api_dict, KeyOf(LiteralDll), n) ]_vars

\* C18: a literal name argument is the API name.  A name given by reference v
\* resolves through the calls to string and memory copy functions before the
\* site, calls to internal functions being passed over: to the literal that
\* the most recent of them pairs with v, the arguments being read in order,
\* and to nothing when no such call pairs a literal with v.  With a handle
\* loaded by literal name, a resolved name is filed under that dll.
C18_CopyCalls ==
    [][ AtCallSite
            => /\ is_literal(SiteProcName) => SiteParse.api_name = SiteProcName.value
               /\ (~is_literal(SiteProcName) /\ CopiesOf(SiteProcName.name) = {})
                      => SiteParse.api_name = None
               /\ (~is_literal(SiteProcName) /\ CopiesOf(SiteProcName.name) # {})
                      => LET n == PairedLiteral(
                                      SiteCode[Max(CopiesOf(SiteProcName.name))].params,
                                      SiteProcName.name).value
                         IN  /\ SiteParse.api_name = n
                             /\ HandleLiteral
                                    => /\ pc' = "crawl"
                                       /\ api_dict' = WithPair(api_dict, KeyOf(LiteralDll), n) ]_vars

\* the call of `hModule = LoadLibraryA("shell32.dll"); strcpy(local_14,
\* "IsUserAnAdmin"); strcpy(local_14, "GetUserNameA"); GetProcAddress(hModule,
\* local_14);` has filed GetUserNameA, the literal of the closer copy
C18_Witness ==
    /\ pc = "crawl"
    /\ program.funcs["FUN_1"].body
          = <<LL(s_hModule, Q(s_shell32_dll)),
              Call("strcpy", <<s_local_14, Q(s_IsUserAnAdmin)>>),
              Call("strcpy", <<s_local_14, Q(s_GetUserNameA)>>),
              GPA(s_hModule, s_local_14)>>
    /\ <<"FUN_1", 4>> \in visited
    /\ last.called
    /\ last.dll = s_shell32_dll
    /\ last.api = s_GetUserNameA
    /\ api_dict = (s_shell32_dll :> {s_GetUserNameA})

\* the call of `hModule = LoadLibraryA("shell32.dll"); FUN_2(local_14,
\* "GetUserNameA"); GetProcAddress(hModule, local_14);` has been processed and
\* nothing was merged: the call to the internal function was passed over
C18_InternalCallPassedOver ==
    /\ pc = "crawl"
    /\ program.funcs["FUN_1"].body
          = <<LL(s_hModule, Q(s_shell32_dll)),
              Call("FUN_2", <<s_local_14, Q(s_GetUserNameA)>>),
              GPA(s_hModule, s_local_14)>>
    /\ <<"FUN_1", 3>> \in visited
    /\ ~last.called
    /\ api_dict = EmptyDict

\* the same with `strcpy("GetUserNameA", 0, local_14);`: the literal is read
\* before the variable and another argument stands between them
C18_LiteralReadFirst ==
    /\ pc = "crawl"
    /\ program.funcs["FUN_1"].body
          = <<LL(s_hModule, Q(s_shell32_dll)),
              Call("strcpy", <<Q(s_GetUserNameA), s_zero, s_local_14>>),
              GPA(s_hModule, s_local_14)>>
    /\ <<"FUN_1", 3>> \in visited
    /\ ~last.called
    /\ api_dict = EmptyDict

-----------------------------------------------------------------------------
(* The Expression Classifier on the arguments of a call.  The text between  *)
(* the parentheses of a call is split at "," and a StringParam is built     *)
(* from each part: from the part as it stands after the split of            *)
(* __enumerate_calls, from the stripped part after that of                  *)
(* __enumerate_call_params.                                                 *)

\* what may stand before an argument: nothing, blanks, "*" and casts
CastPrefixes ==
    { <<>>,
      <<" ">>,
      <<"*">>,
      <<"*", " ">>,
      <<"(", "c", "h", "a", "r", " ", "*", ")">>,
      <<"(", "L", "P", "C", "S", "T", "R", ")", " ">>,
      <<"*", "(", "c", "h", "a", "r", " ", "*", "*", ")">>,
      <<" ", "(", "c", "h", "a", "r", " ", "*", ")">> }

\* the arguments proper: literals, wide literals, identifiers, numbers,
\* expressions, unterminated and empty literals, and nothing at all
ArgumentCores ==
    { <<"\"", "k", "e", "r", "n", "e", "l", "3", "2", ".", "d", "l", "l", "\"">>,
      <<"L", "\"", "C", "r", "e", "a", "t", "e", "F", "i", "l", "e", "W", "\"">>,
      <<"l", "o", "c", "a", "l", "_", "1", "4">>,
      <<"_", "n", "a", "m", "e">>,
      <<"0">>,
      <<"0", "x", "1", "c">>,
      <<"&", "h", "M", "o", "d", "u", "l", "e">>,
      <<"p", "a", "r", "a", "m", "_", "1", " ", "+", " ", "0", "x", "1", "c">>,
      <<"\"", "\"">>,
      <<>>,
      <<"\"">>,
      <<"\"", "a">>,
      <<"L">>,
      <<"(", "p", "a", "r", "a", "m", "_", "1", ")">>,
      <<"-", "1">>,
      <<"\"", "a", "\"", " ", "\"", "b", "\"">> }

\* argument lists of several arguments, and of arguments left out
ArgumentLists ==
    { <<"h", "L", "i", "b", ",", " ", "\"", "G", "e", "t", "U", "s", "e", "r", "N", "a", "m", "e", "A", "\"">>,
      <<"l", "o", "c", "a", "l", "_", "1", "4", ",">>,
      <<",">>,
      <<"p", "a", "r", "a", "m", "_", "1", ",", "p", "a", "r", "a", "m", "_", "2">>,
      <<" ", "\"", "a", "\"", " ", ",", " ", "b", " ">> }

ArgumentTexts == {p \o c : p \in CastPrefixes, c \in ArgumentCores} \cup ArgumentLists

\* text.split(",")
RECURSIVE SplitAtCommas(_)
SplitAtCommas(text) ==
    LET commas == {i \in DOMAIN text : text[i] = ","}
    IN  IF commas = {} THEN <<text>>
        ELSE <<SubSeq(text, 1, Min(commas) - 1)>>
                 \o SplitAtCommas(SubSeq(text, Min(commas) + 1, Len(text)))

InitClassify ==
    /\ NotCrawling
    /\ api_db_path = None
    /\ db_file = EmptyDict
    /\ defined_strings = {}
    /\ api_db = NotLoaded
    /\ db_reads = 0
    /\ api_dict = EmptyDict
    /\ last = NoCall
    /\ NotLocating
    /\ arguments \in ArgumentTexts
    /\ fragments = <<>>
    /\ expressions = <<>>

\* the argument list is split; __enumerate_call_params strips the parts
SplitArguments ==
    /\ fragments = <<>>
    /\ \E stripped \in BOOLEAN :
           fragments' = [i \in DOMAIN SplitAtCommas(arguments) |->
                            IF stripped THEN Strip(SplitAtCommas(arguments)[i])
                            ELSE SplitAtCommas(arguments)[i]]
    /\ UNCHANGED <<arguments, expressions>>
    /\ UNCHANGED <<progVars, envVars, mergeVars, crawlVars, resolveVars, refVars>>

\* StringParam(param) on the next part
Classify ==
    /\ Len(expressions) < Len(fragments)
    /\ expressions' = Append(expressions, StringParam(fragments[Len(expressions) + 1]))
    /\ UNCHANGED <<arguments, fragments>>
    /\ UNCHANGED <<progVars, envVars, mergeVars, crawlVars, resolveVars, refVars>>

NextClassify == SplitArguments \/ Classify

SpecClassify == InitClassify /\ [][NextClassify]_vars

\* a Literal has a non-empty value and no name, a Reference a non-empty name
\* and no value
IsLiteralOnly(e) == e.value # None /\ e.value # <<>> /\ e.name = None
IsReferenceOnly(e) == e.value = None /\ e.name # None /\ e.name # <<>>

\* C19 as stated: every Expression built from a fragment, the empty fragment
\* included, is a Literal with a non-empty value and no name or a Reference
\* with a non-empty name and no value.
C19_AsClaimed ==
    \A i \in DOMAIN expressions : IsLiteralOnly(expressions[i]) \/ IsReferenceOnly(expressions[i])

\* the part of C19 the code keeps: the Expression built from a non-empty
\* fragment is one of the two and not the other; the one built from any
\* fragment never has both a value and a name, and never neither
C19_NonEmptyFragments ==
    \A i \in DOMAIN expressions :
        /\ (expressions[i].value = None) # (expressions[i].name = None)
        /\ expressions[i].value # <<>>
        /\ fragments[i] # <<>>
               => IsLiteralOnly(expressions[i]) \/ IsReferenceOnly(expressions[i])

\* the part of C19 the code does not keep: the Expression built from the empty
\* fragment has no value and the empty name
C19_EmptyFragment ==
    \A i \in DOMAIN expressions :
        fragments[i] = <<>> => expressions[i] = [value |-> None, name |-> <<>>]

\* the empty argument list has been split into one empty part, and the
\* Expression built from it has the empty name
C19_EmptyName ==
    /\ arguments = <<>>
    /\ fragments = << <<>> >>
    /\ expressions = << [value |-> None, name |-> <<>>] >>

\* the list `hLib, "GetUserNameA"` has been read without stripping: a
\* Reference named hLib and a Literal of value GetUserNameA
C19_BothKinds ==
    /\ fragments = <<s_hLib, <<" ">> \o Q(s_GetUserNameA)>>
    /\ expressions = << [value |-> None, name |-> s_hLib],
                        [value |-> s_GetUserNameA, name |-> None] >>

-----------------------------------------------------------------------------
(* The loading of the database file, checked under SpecMerge *)

\* a merge step that needs the database: no dll is given and a path is set
NeedsDatabase == last'.n = last.n + 1 /\ last'.dll = None /\ api_db_path # None

\* the steps of a run that reads the file on the first need and never again
ReadOnFirstNeed ==
    /\ (~api_db.loaded /\ ~NeedsDatabase) => (db_reads' = db_reads /\ api_db' = api_db)
    /\ (~api_db.loaded /\ NeedsDatabase)
           => (db_reads' = db_reads + 1 /\ api_db' = [loaded |-> TRUE, map |-> db_file])
    /\ api_db.loaded => (db_reads' = db_reads /\ api_db' = api_db)

\* C20 as stated: for any database content, the empty mapping included, the
\* file is read at most once: not before the first merge without a dll, on
\* that merge, and never again, the loaded mapping being left as it is.
C20_AsClaimed == [](db_reads <= 1) /\ [][ReadOnFirstNeed]_vars

\* the part of C20 the code keeps: for a database file that holds at least one
\* name the file is read at most once, on the first need; for any content the
\* file is not read before the first need, is read on it, and the loaded
\* mapping is the content of the file
C20_NonEmptyDatabase ==
    /\ [](db_file # EmptyDict => db_reads <= 1)
    /\ []((db_reads = 0) = ~api_db.loaded)
    /\ [](api_db.loaded => api_db.map = db_file)
    /\ [][ (db_file # EmptyDict \/ ~api_db.loaded) => ReadOnFirstNeed ]_vars

\* the part of C20 the code does not keep: with an empty mapping in the file,
\* every merge without a dll reads the file again
C20_EmptyMappingReread ==
    [][ (db_file = EmptyDict /\ NeedsDatabase) => db_reads' = db_reads + 1 ]_vars

\* two merges without a dll on a database file holding the empty mapping: the
\* file was read twice
C20_ReadTwice ==
    /\ db_file = EmptyDict
    /\ api_db_path # None
    /\ last.n = 2
    /\ last.dll = None
    /\ db_reads = 2

\* two merges without a dll on a database file holding names: read once
C20_ReadOnce ==
    /\ db_file = DbWithExtensions
    /\ api_db_path # None
    /\ last.n = 2
    /\ last.dll = None
    /\ db_reads = 1

-----------------------------------------------------------------------------
(* The calls of __update_api_dict made for one call site, checked under Spec *)

\* the loop over the yielded pairs: the arguments of each call it makes
RECURSIVE CarriedMerges(_, _, _)
CarriedMerges(yields, api_dll, api_name) ==
    IF yields = <<>> THEN <<>>
    ELSE LET y == Head(yields)
             dll == IF is_literal(y.lp_lib_filename) THEN y.lp_lib_filename.value
                    ELSE api_dll
             name == IF is_literal(y.lp_proc_name) THEN y.lp_proc_name.value
                     ELSE api_name
         IN  (IF name # None /\ name # <<>> THEN << <<dll, name>> >> ELSE <<>>)
                 \o CarriedMerges(Tail(yields), dll, name)

\* the arguments <<api_dll, api_name>> of the calls of __update_api_dict that
\* the loop body of crawl_dynamic_imports makes for the call site that is next
SiteMerges ==
    LET Parsed(p) ==
            IF p.err THEN <<>>
            ELSE IF p.external_params.none THEN << <<p.api_dll, p.api_name>> >>
            ELSE IF /\ p.external_params.lpLibFileName = 0
                    /\ p.external_params.lpProcName = 0
                    /\ p.external_params.hModule = 0
            THEN (IF p.api_name # None THEN << <<p.api_dll, p.api_name>> >> ELSE <<>>)
            ELSE CarriedMerges(enumerate_call_params(SiteFunctionName, p.external_params).yields,
                               p.api_dll, p.api_name)
    IN  Parsed(SiteParse)

\* the merge state after the calls of merges, made in turn from state st
RECURSIVE AfterMerges(_, _)
AfterMerges(st, merges) ==
    IF merges = <<>> THEN st
    ELSE AfterMerges(update_api_dict(st, Head(merges)[1], Head(merges)[2]), Tail(merges))

\* each call of merges, made in turn from state st, has a known name; one with
\* a dll files the name under that dll and leaves the database alone; one
\* without a dll files it under a candidate of the database or not at all
RECURSIVE KnownNamesOnly(_, _)
KnownNamesOnly(st, merges) ==
    \/ merges = <<>>
    \/ LET dll == Head(merges)[1]
           name == Head(merges)[2]
           after == update_api_dict(st, dll, name)
       IN  /\ name # None
           /\ name # <<>>
           /\ dll # None
                  => /\ after.api_dict = WithPair(st.api_dict, KeyOf(dll), name)
                     /\ after.api_db = st.api_db
                     /\ after.db_reads = st.db_reads
           /\ dll = None
                  => \/ after.api_dict = st.api_dict
                     \/ /\ api_db_path # None
                        /\ name \in DOMAIN db_file
                        /\ \E i \in DOMAIN db_file[name] :
                               after.api_dict = WithPair(st.api_dict, KeyOf(db_file[name][i]),
                                                         name)
           /\ KnownNamesOnly(after, Tail(merges))

\* no dll of the dictionary holds a missing name
NoMissingName == \A k \in DOMAIN api_dict : None \notin api_dict[k] /\ <<>> \notin api_dict[k]

\* C21: the database is consulted only for a merge without a dll and with a
\* known name.  Every call of __update_api_dict that a call site makes has a
\* name that is neither None nor empty; a call with a dll files the name under
\* that dll, lower-cased and with an extension, without opening or consulting
\* the database; the file is opened only in a step that makes a call without a
\* dll; and no entry of the dictionary ever holds a missing name.
C21_KnownName ==
    /\ []NoMissingName
    /\ [](last.called => last.api # None /\ last.api # <<>>)
    /\ [][ AtCallSite
              => LET Made(merges, after) ==
                         /\ KnownNamesOnly(MergeState, merges)
                         /\ api_dict' = after.api_dict
                         /\ db_reads' = after.db_reads
                         /\ db_reads' # db_reads
                                => \E i \in DOMAIN merges : merges[i][1] = None
                     Checked(merges) == Made(merges, AfterMerges(MergeState, merges))
                 IN  Checked(SiteMerges) ]_vars

\* a call site whose handle was loaded from "shell32.dll" and whose name is
\* "CreateFileW" has been processed by an enumerator that has a database
\* listing kernel32.dll for CreateFileW, a defined string of the binary: the
\* name is filed under shell32.dll and the file was never opened
C21_Witness ==
    /\ pc = "crawl"
    /\ api_db_path # None
    /\ s_CreateFileW \in DOMAIN db_file
    /\ last.called
    /\ last.dll = s_shell32_dll
    /\ last.api = s_CreateFileW
    /\ api_dict = (s_shell32_dll :> {s_CreateFileW})
    /\ db_reads = 0
    /\ ~api_db.loaded

-----------------------------------------------------------------------------
(* The Calling-Convention Normalizer, checked under Spec *)

\* the conventions the program was loaded with
LoadedConventions ==
    [f \in DOMAIN program.funcs |-> IF f \in program.thiscall THEN "__thiscall" ELSE "__stdcall"]

\* a call site has been analysed in the crawl in progress
SomeSiteAnalysed == \E site \in visited : site[2] > 0

\* a step of the normalizer on the function that is next
FixStep == pc = "fix" /\ todo # <<>> /\ todo' = Tail(todo)

\* C22: __fix_calling_conventions is entered only from the start of a crawl,
\* hence at most once in a crawl, and before any call site is analysed; it
\* visits each function at most once; on a program that is not 32-bit no
\* convention ever changes; a convention changes only in a step of the
\* normalizer, only to __thiscall, and only for the function in turn, which
\* refers to a library-loading API; a function that is __thiscall already is
\* neither decompiled nor changed.
C22_Normalizer ==
    /\ [](program.size # 32 => conv = LoadedConventions)
    /\ [](pc = "fix" => /\ program.size = 32
                        /\ ~SomeSiteAnalysed
                        /\ \A i, j \in DOMAIN todo : todo[i] = todo[j] => i = j
                        /\ \A i \in DOMAIN todo : <<todo[i], 0>> \notin visited)
    /\ [][ (pc' = "fix" /\ pc # "fix") => pc = "ready" ]_vars
    /\ [][ pc = "crawl" => pc' \in {"crawl", "done", "IndexError"} ]_vars
    /\ [][ conv' # conv
              => /\ FixStep
                 /\ Head(todo) \in load_lib_functions
                 /\ conv[Head(todo)] # "__thiscall"
                 /\ conv' = [conv EXCEPT ![Head(todo)] = "__thiscall"] ]_vars
    /\ [][ (FixStep /\ conv[Head(todo)] = "__thiscall")
              => conv' = conv /\ decompiler_calls' = decompiler_calls ]_vars

\* the normalizer has gone through a 32-bit program: FUN_2, whose code uses an
\* int local as a handle holder without assigning it, is now __thiscall, and
\* no call site has been analysed yet
C22_Witness ==
    /\ pc = "fix"
    /\ todo = <<>>
    /\ program.size = 32
    /\ "FUN_2" \notin program.thiscall
    /\ conv["FUN_2"] = "__thiscall"
    /\ program.funcs["FUN_2"].body
          = <<Decl("int", s_local_30), LL(s_field_of_local_30, Q(s_advapi32_dll))>>
    /\ decompiler_calls["FUN_2"] = 1
    /\ ~SomeSiteAnalysed

\* the normalizer has passed over a function that was __thiscall when the
\* program was loaded, without decompiling it
C22_AlreadyThiscall ==
    /\ pc = "fix"
    /\ \E f \in program.thiscall :
          /\ <<f, 0>> \in visited
          /\ decompiler_calls[f] = 0
          /\ conv[f] = "__thiscall"

-----------------------------------------------------------------------------
(* The test of __fix_calling_conventions, on helper functions whose code     *)
(* declares and uses locals in the ways the two regular expressions tell     *)
(* apart.  FUN_1 holds a GetProcAddress call, FUN_2 is the helper.           *)

s_local_2c == <<"l","o","c","a","l","_","2","c">>
s_field_of_local_2c == <<"*","(","H","M","O","D","U","L","E"," ","*",")","(","l","o","c","a","l","_","2","c"," ","+"," ","0","x","1","c",")">>
s_unaff_EBX == <<"u","n","a","f","f","_","E","B","X">>
s_field_of_unaff_EBX == <<"*","(","H","M","O","D","U","L","E"," ","*",")","(","u","n","a","f","f","_","E","B","X"," ","+"," ","0","x","1","c",")">>

\* the code of the helper: declarations of "this", of one local and of two
\* locals, cast to HMODULE * or not, assigned before the cast or not
ThiscallBodies ==
    { <<Decl("void *", s_this), LL(s_deref_param_1, Q(s_advapi32_dll))>>,
      <<Decl("int *", s_this), LL(s_deref_param_1, Q(s_advapi32_dll))>>,
      <<Decl("int", s_this), LL(s_deref_param_1, Q(s_advapi32_dll))>>,
      <<Decl("int", s_local_30), LL(s_field_of_local_30, Q(s_advapi32_dll))>>,
      <<Decl("void *", s_local_30), LL(s_field_of_local_30, Q(s_advapi32_dll))>>,
      <<Decl("char", s_local_30), LL(s_field_of_local_30, Q(s_advapi32_dll))>>,
      <<Decl("int", s_local_30), Assign(s_local_30, s_param_1),
        LL(s_field_of_local_30, Q(s_advapi32_dll))>>,
      <<Decl("int", s_local_30), LL(s_field_of_local_30, Q(s_advapi32_dll)),
        Assign(s_local_30, s_param_1)>>,
      <<Decl("int", s_local_30), LL(s_deref_param_1, Q(s_advapi32_dll))>>,
      <<Decl("int", s_unaff_EBX), LL(s_field_of_unaff_EBX, Q(s_advapi32_dll))>>,
      <<Decl("int", s_local_2c), Decl("int", s_local_30), Assign(s_local_2c, s_param_1),
        LL(s_field_of_local_2c, Q(s_advapi32_dll)), LL(s_field_of_local_30, Q(s_kernel32_dll))>>,
      <<Decl("int", s_local_2c), Decl("int", s_local_30), Assign(s_local_30, s_param_1),
        LL(s_field_of_local_2c, Q(s_advapi32_dll)), LL(s_field_of_local_30, Q(s_kernel32_dll))>>,
      <<Decl("int", s_local_2c), Decl("int", s_local_30),
        LL(s_field_of_local_30, Q(s_kernel32_dll))>>,
      <<LL(s_deref_param_1, Q(s_advapi32_dll))>> }

FixSettings ==
    {Plain, [Plain EXCEPT !.size = 64], [Plain EXCEPT !.fails = {"FUN_2"}],
     [Plain EXCEPT !.thiscall = {"FUN_2"}]}

FixPrograms ==
    { [funcs |-> ("FUN_1" :> Fn(<<s_param_1>>, <<Call("FUN_2", <<s_ref_hModule>>),
                                                  GPA(s_hModule, Q(s_GetUserNameA))>>))
                 @@ ("FUN_2" :> Fn(<<s_param_1>>, b))
                 @@ ("FUN_3" :> Fn(<<s_param_1>>, c)),
       fails |-> s.fails, nometa |-> s.nometa, order |-> FunctionNames,
       size |-> s.size, thiscall |-> s.thiscall] :
        b \in ThiscallBodies, c \in {NoCaller, EarlierLoad}, s \in FixSettings }

\* an enumerator constructed without a database, about to crawl
InitFix ==
    /\ program \in FixPrograms
    /\ db_file = EmptyDict
    /\ defined_strings = {}
    /\ conv = [f \in DOMAIN program.funcs |->
                  IF f \in program.thiscall THEN "__thiscall" ELSE "__stdcall"]
    /\ api_db_arg = s_missing_json
    /\ api_db_path = None
    /\ pc = "ready"
    /\ run = 1
    /\ todo = <<>>
    /\ sites = <<>>
    /\ decompiled_functions = <<>>
    /\ decompiler_calls = [f \in DOMAIN program.funcs |-> 0]
    /\ visited = {}
    /\ first_result = EmptyDict
    /\ api_db = NotLoaded
    /\ db_reads = 0
    /\ api_dict = EmptyDict
    /\ last = NoCall
    /\ stack = <<>>
    /\ returned = NoReturn
    /\ NotClassifying
    /\ NotLocating

\* crawl_dynamic_imports up to the loop over the functions referring to
\* GetProcAddress
NextFix == BeginCrawl \/ FixCallingConvention \/ EndFix

SpecFix == InitFix /\ [][NextFix]_vars

\* the normalizer decompiles the function in turn and applies its test
TestsFunction ==
    /\ FixStep
    /\ conv[Head(todo)] # "__thiscall"
    /\ Head(todo) \notin program.fails

\* the locals of the code that are cast to HMODULE * after their declaration
CastLocals(body) == {d \in LocalDecls(body) : CastUses(body, d) # {}}

\* nothing is assigned to the local declared at d between the declaration and
\* the first cast of it
UnassignedBeforeCast(body, d) ==
    \A i \in (d + 1)..(Min(CastUses(body, d)) - 1) :
        ~(body[i].kind \in {"assign", "ll"} /\ EndsWith(body[i].lhs, body[d].name))

\* the code declares "this", or some local of it is cast to HMODULE * with no
\* assignment between its declaration and the cast
SomeLocalUnassigned(body) ==
    \/ ThisDeclared(body)
    \/ \E d \in CastLocals(body) : UnassignedBeforeCast(body, d)

\* C23 as stated: a function the normalizer tests becomes __thiscall exactly
\* when its code declares "this" or holds some local that is cast to HMODULE *
\* with no assignment between declaration and cast, also when an earlier
\* declared local is assigned before its own cast.
C23_AsClaimed ==
    [][ TestsFunction
            => ((conv'[Head(todo)] = "__thiscall")
                    = SomeLocalUnassigned(program.funcs[Head(todo)].body)) ]_vars

\* the part of C23 the code keeps: the same, for code in which at most one
\* local is cast to HMODULE * after its declaration
C23_OneCastLocal ==
    [][ (TestsFunction /\ Cardinality(CastLocals(program.funcs[Head(todo)].body)) <= 1)
            => ((conv'[Head(todo)] = "__thiscall")
                    = SomeLocalUnassigned(program.funcs[Head(todo)].body)) ]_vars

\* what the code does with several such locals: only the first declared one
\* is looked at
C23_FirstCastLocal ==
    [][ (TestsFunction /\ CastLocals(program.funcs[Head(todo)].body) # {}
                       /\ ~ThisDeclared(program.funcs[Head(todo)].body))
            => ((conv'[Head(todo)] = "__thiscall")
                    = UnassignedBeforeCast(program.funcs[Head(todo)].body,
                                           Min(CastLocals(program.funcs[Head(todo)].body)))) ]_vars

\* the normalizer has gone through a program whose FUN_2 declares local_2c and
\* local_30, assigns local_2c before casting it and casts local_30 without an
\* assignment: FUN_2 was decompiled and is not __thiscall
C23_SecondLocalMissed ==
    /\ pc = "crawl"
    /\ program.funcs["FUN_2"].body
          = <<Decl("int", s_local_2c), Decl("int", s_local_30), Assign(s_local_2c, s_param_1),
              LL(s_field_of_local_2c, Q(s_advapi32_dll)),
              LL(s_field_of_local_30, Q(s_kernel32_dll))>>
    /\ decompiler_calls["FUN_2"] = 1
    /\ conv["FUN_2"] = "__stdcall"

\* the same where local_2c is not assigned and local_30 is: FUN_2 is __thiscall
C23_FirstLocalFound ==
    /\ pc = "crawl"
    /\ program.funcs["FUN_2"].body
          = <<Decl("int", s_local_2c), Decl("int", s_local_30), Assign(s_local_30, s_param_1),
              LL(s_field_of_local_2c, Q(s_advapi32_dll)),
              LL(s_field_of_local_30, Q(s_kernel32_dll))>>
    /\ decompiler_calls["FUN_2"] = 1
    /\ conv["FUN_2"] = "__thiscall" 

-----------------------------------------------------------------------------
(* The Reference Locator: __get_calling_functions and                       *)
(* __get_functions_containing_refs, a loop iteration at a time, on the      *)
(* references of a small address space.                                     *)

MaxRefs == 3      \* references of one symbol
MaxAddress == 5   \* origin addresses

\* getFunctionContaining(address): the declared function, None where there is none
getFunctionContaining(address) ==
    IF address \in {1, 2} THEN "FUN_1"
    ELSE IF address = 5 THEN "FUN_2"
    ELSE "None"

\* UndefinedFunction.findFunction(currentProgram, address, monitor)
findFunction(address) ==
    IF address = 3 THEN "UndefinedFunction_3"
    ELSE IF address = 5 THEN "UndefinedFunction_5"
    ELSE "None"

\* reference types, by what isCall(), isJump() and isIndirect() answer: a call,
\* a jump, a computed call, an indirection, and two kinds of data reference
RefTypes ==
    { [isCall |-> TRUE, isJump |-> FALSE, isIndirect |-> FALSE, isData |-> FALSE],
      [isCall |-> FALSE, isJump |-> TRUE, isIndirect |-> FALSE, isData |-> FALSE],
      [isCall |-> FALSE, isJump |-> FALSE, isIndirect |-> TRUE, isData |-> FALSE],
      [isCall |-> FALSE, isJump |-> FALSE, isIndirect |-> FALSE, isData |-> TRUE] }

References == [type : RefTypes, from : 1..MaxAddress]

RefLists == UNION {[1..n -> References] : n \in 0..MaxRefs}

\* a symbol with its references
Symbol(references) == [references |-> references]

\* what getSymbols gives for the function: nothing, one symbol, or two
SymbolLists ==
    {<<>>}
    \cup {<<Symbol(r)>> : r \in RefLists}
    \cup {<<Symbol(r), Symbol(<<[type |-> CHOOSE t \in RefTypes : t.isCall, from |-> 5]>>)>> :
             r \in RefLists}

InitLocate ==
    /\ NotCrawling
    /\ NotClassifying
    /\ api_db_path = None
    /\ db_file = EmptyDict
    /\ defined_strings = {}
    /\ api_db = NotLoaded
    /\ db_reads = 0
    /\ api_dict = EmptyDict
    /\ last = NoCall
    /\ function_symbols \in SymbolLists
    /\ refs_left = <<>>
    /\ callers_set = {}
    /\ locating = "called"

LocateOnly == UNCHANGED <<progVars, envVars, mergeVars, crawlVars, resolveVars, classifyVars>>

\* __get_calling_functions up to its call of __get_functions_containing_refs
GetCallingFunctions ==
    /\ locating = "called"
    /\ IF Len(function_symbols) = 0
       THEN locating' = "returned" /\ refs_left' = <<>>
       ELSE locating' = "reading" /\ refs_left' = function_symbols[1].references
    /\ callers_set' = {}
    /\ UNCHANGED function_symbols
    /\ LocateOnly

\* the loop of __get_functions_containing_refs reads only the declared functions
ReadReference_DeclaredOnly ==
    /\ locating = "reading"
    /\ refs_left # <<>>
    /\ LET reference == Head(refs_left)
           passed == /\ ~reference.type.isCall
                     /\ ~reference.type.isJump
                     /\ ~reference.type.isIndirect
           calling_function == getFunctionContaining(reference.from)
       IN  callers_set' = IF passed \/ calling_function = "None" THEN callers_set
                          ELSE callers_set \cup {calling_function}
    /\ refs_left' = Tail(refs_left)
    /\ UNCHANGED <<function_symbols, locating>>
    /\ LocateOnly

\* one iteration of the loop of __get_functions_containing_refs
ReadReference ==
    /\ locating = "reading"
    /\ refs_left # <<>>
    /\ LET reference == Head(refs_left)
           passed == /\ ~reference.type.isCall
                     /\ ~reference.type.isJump
                     /\ ~reference.type.isIndirect
           calling_function ==
               IF getFunctionContaining(reference.from) # "None"
               THEN getFunctionContaining(reference.from)
               ELSE findFunction(reference.from)
       IN  callers_set' = IF passed \/ calling_function = "None" THEN callers_set
                          ELSE callers_set \cup {calling_function}
    /\ refs_left' = Tail(refs_left)
    /\ UNCHANGED <<function_symbols, locating>>
    /\ LocateOnly

\* __get_functions_containing_refs returns its set
ReturnCallers ==
    /\ locating = "reading"
    /\ refs_left = <<>>
    /\ locating' = "returned"
    /\ UNCHANGED <<function_symbols, refs_left, callers_set>>
    /\ LocateOnly

NextLocate == GetCallingFunctions \/ ReadReference \/ ReturnCallers

SpecLocate == InitLocate /\ [][NextLocate]_vars

\* the function a reference counts for: the declared function holding its
\* origin, or else the undefined function found there, if it is a call, a jump
\* or an indirect reference; the empty set otherwise
CountsFor(reference) ==
    IF ~(reference.type.isCall \/ reference.type.isJump \/ reference.type.isIndirect)
    THEN {}
    ELSE IF \E a \in {1, 2} : reference.from = a THEN {"FUN_1"}
    ELSE IF reference.from = 5 THEN {"FUN_2"}
    ELSE IF reference.from = 3 THEN {"UndefinedFunction_3"}
    ELSE {}

\* the functions the references of a list count for
Referencing(references) == UNION {CountsFor(references[i]) : i \in DOMAIN references}

\* C24: __get_functions_containing_refs returns exactly the functions that a
\* call, jump or indirect reference of the list counts for, each once, and
\* while it reads the list its set holds those of the references read so far;
\* __get_calling_functions returns the empty collection for a function without
\* a symbol, and the functions the references of the first symbol count for
\* otherwise.
C24_Referencing ==
    /\ locating = "returned"
          => callers_set = IF function_symbols = <<>> THEN {}
                           ELSE Referencing(function_symbols[1].references)
    /\ locating = "reading"
          => /\ function_symbols # <<>>
             /\ \E n \in 0..Len(function_symbols[1].references) :
                   /\ refs_left = SubSeq(function_symbols[1].references, n + 1,
                                         Len(function_symbols[1].references))
                   /\ callers_set = Referencing(SubSeq(function_symbols[1].references, 1, n))

\* the references of the symbol were a data reference from FUN_1, a call from
\* the other address of FUN_1 and a jump from an address that only an
\* undefined function holds: FUN_1 and the undefined function are returned
C24_Witness ==
    /\ locating = "returned"
    /\ Len(function_symbols) = 1
    /\ Len(function_symbols[1].references) = 3
    /\ function_symbols[1].references[1].type.isData
    /\ function_symbols[1].references[1].from = 1
    /\ function_symbols[1].references[2].type.isCall
    /\ function_symbols[1].references[2].from = 2
    /\ function_symbols[1].references[3].type.isJump
    /\ function_symbols[1].references[3].from = 3
    /\ callers_set = {"FUN_1", "UndefinedFunction_3"}

\* a function without a symbol: the empty collection
C24_NoSymbol ==
    /\ locating = "returned"
    /\ function_symbols = <<>>
    /\ callers_set = {}

\* calls from both addresses of FUN_1 and from an address no function holds:
\* FUN_1 is returned, once
C24_Once ==
    /\ locating = "returned"
    /\ Len(function_symbols) = 1
    /\ Len(function_symbols[1].references) = 3
    /\ \A i \in 1..3 : function_symbols[1].references[i].type.isCall
    /\ function_symbols[1].references[1].from = 1
    /\ function_symbols[1].references[2].from = 2
    /\ function_symbols[1].references[3].from = 4
    /\ callers_set = {"FUN_1"}
    /\ Cardinality(callers_set) = 1

-----------------------------------------------------------------------------
(* The dictionary as a union of merges, checked under SpecMerge *)

\* the pairs (dll key, api name) of a dictionary
PairsOf(dict) == UNION {{<<k, n>> : n \in dict[k]} : k \in DOMAIN dict}

ResolvedPairs == ResolvedDllPool \X ApiPool

\* the merge states after one resolved pair has been merged from state st
AfterOne(st) == [p \in ResolvedPairs |-> update_api_dict(st, p[1], p[2])]

\* from state st, two resolved pairs merged in either order, and one pair
\* merged once or twice, give the same dictionary: the union of the pairs
Commutes(st, one) ==
    \A p, q \in ResolvedPairs :
        LET Both(pq, qp) ==
                /\ pq = qp
                /\ PairsOf(pq) = PairsOf(st.api_dict)
                                    \cup {<<KeyOf(p[1]), p[2]>>, <<KeyOf(q[1]), q[2]>>}
                /\ p = q => pq = one[p].api_dict
        IN  Both(update_api_dict(one[p], q[1], q[2]).api_dict,
                 update_api_dict(one[q], p[1], p[2]).api_dict)

\* C25: the dictionary only grows: a merge keeps every pair that was present;
\* a merge of a pair that is present already leaves the dictionary as it is;
\* and from any dictionary reached before the last merge of a behaviour, two
\* resolved pairs merged in either order, and one pair merged once or twice,
\* give the same dictionary.
C25_UnionOfMerges ==
    /\ [][ /\ PairsOf(api_dict) \subseteq PairsOf(api_dict')
           /\ DOMAIN api_dict \subseteq DOMAIN api_dict'
           /\ (last'.dll # None /\ <<KeyOf(last'.dll), last'.api>> \in PairsOf(api_dict))
                  => api_dict' = api_dict ]_vars
    /\ [](last.n < MaxMerges => Commutes(MergeState, AfterOne(MergeState)))

\* the pair (user32, CreateFileW) has been merged twice: the dictionary after
\* the second merge is the one before it, user32.dll with the one name
C25_Witness ==
    /\ last.n = 2
    /\ last.dll = s_user32
    /\ last.api = s_CreateFileW
    /\ last.before = api_dict
    /\ api_dict = (s_user32_dll :> {s_CreateFileW})

\* two names have been merged under one dll
C25_TwoNames ==
    /\ last.n = 2
    /\ api_dict = (s_user32_dll :> {s_CreateFileW, s_OpenPrinterW})

-----------------------------------------------------------------------------
(* The two parameter accessors on the cached text of one function *)

\* the indices, from 1, at which __enumerate_function_params yields a name
FormalIndices(f) == DOMAIN enumerate_function_params(f, decompiled_functions[f].code)

\* what __get_function_param returns for the index of the i-th yielded name
AccessedName(f, i) == get_function_param(f, decompiled_functions[f].code, i - 1)

\* what __enumerate_function_params yields as its i-th name
EnumeratedName(f, i) == enumerate_function_params(f, decompiled_functions[f].code)[i]

\* C26: for every function whose text is cached and every index, the two
\* accessors __get_function_param and __enumerate_function_params return the
\* same bare parameter name.
C26_AsClaimed ==
    \A f \in DOMAIN decompiled_functions :
        \A i \in FormalIndices(f) : AccessedName(f, i) = EnumeratedName(f, i)

\* with a parameter count above zero in the metadata both accessors return the
\* metadata's name and the text is not looked at; with a count of zero both
\* take the piece of the signature at the index, which __get_function_param
\* returns stripped of blanks only and __enumerate_function_params cut down
\* to the bare name
C26_SameSource ==
    \A f \in DOMAIN decompiled_functions :
        \A i \in FormalIndices(f) :
            IF Len(Parameters(f)) > 0
            THEN /\ AccessedName(f, i) = Parameters(f)[i]
                 /\ EnumeratedName(f, i) = Parameters(f)[i]
            ELSE /\ AccessedName(f, i) = Strip(decompiled_functions[f].code.sig[i])
                 /\ EnumeratedName(f, i) = BareName(AccessedName(f, i))

\* FUN_2 has parameters in its text and none in its metadata; its text is
\* cached, and for its first parameter one accessor returns "int param_1"
\* and the other "param_1"
C26_DecoratedName ==
    /\ "FUN_2" \in DOMAIN decompiled_functions
    /\ Parameters("FUN_2") = <<>>
    /\ 1 \in FormalIndices("FUN_2")
    /\ AccessedName("FUN_2", 1) = s_int_ \o EnumeratedName("FUN_2", 1)
    /\ EnumeratedName("FUN_2", 1) = s_param_1

\* FUN_2 has its parameters in the metadata: both accessors return param_1
C26_FromMetadata ==
    /\ "FUN_2" \in DOMAIN decompiled_functions
    /\ Len(Parameters("FUN_2")) > 0
    /\ AccessedName("FUN_2", 1) = s_param_1
    /\ EnumeratedName("FUN_2", 1) = s_param_1

-----------------------------------------------------------------------------
(* The Decompilation Cache over the gets of a run *)

\* a new enumerator starts with an empty cache
NewEnumerator == decompiled_functions # <<>> /\ decompiled_functions' = <<>>

\* the functions the step requests through __decompile_function
Requested ==
    IF pc = "crawl" /\ sites = <<>> /\ todo # <<>> THEN {Head(todo)}
    ELSE IF pc = "crawl" /\ sites # <<>>
         THEN {Head(sites)[1]}
              \cup crawl_call_site(MergeState, Head(sites)[1],
                                   decompile_function(Head(sites)[1]), Head(sites)[2]).dec
    ELSE {}

\* what a step does to the cache entry of f and to the invocations on f
CacheStep(f) ==
    /\ f \in DOMAIN decompiled_functions
          => /\ f \in DOMAIN decompiled_functions'
             /\ decompiled_functions'[f] = decompiled_functions[f]
             /\ decompile_function(f)' = decompile_function(f)
             /\ ~FixStep => decompiler_calls'[f] = decompiler_calls[f]
    /\ (f \notin DOMAIN decompiled_functions /\ f \in DOMAIN decompiled_functions')
          => /\ f \in Requested
             /\ decompiler_calls'[f] = decompiler_calls[f] + 1
             /\ decompiled_functions'[f].code = DecompiledCode(f)
             /\ f \in program.fails => decompiled_functions'[f].code = Fallback(f)
    /\ (f \notin DOMAIN decompiled_functions' /\ ~FixStep)
          => decompiler_calls'[f] = decompiler_calls[f]
    /\ (f \in Requested /\ pc' # "IndexError") => f \in DOMAIN decompiled_functions'

\* the function whose call sites are being gone through has its text cached:
\* its call regex and its parameter list are read from an existing entry
SiteFunctionsCached ==
    \A i \in DOMAIN sites : sites[i][1] \in DOMAIN decompiled_functions

\* C27: while an enumerator lives, a get for a function that is in the cache
\* returns the stored text and invokes the decompiler no more; a get for a
\* function that is not stores the repaired text, or the prototype after a
\* failure, with one invocation; and call regex and parameters are read for
\* functions with a cached text.
C27_CachedOnce ==
    /\ [][~NewEnumerator => \A f \in Funcs : CacheStep(f)]_vars
    /\ []SiteFunctionsCached

\* the second run on the same enumerator has gone through FUN_1 again, which
\* the decompiler fails on and the normalizer does not look at: one
\* invocation, and the prototype still stored
C27_Witness ==
    /\ run = 2
    /\ pc = "done"
    /\ "FUN_1" \notin load_lib_functions
    /\ "FUN_1" \in program.fails
    /\ "FUN_1" \in Range(dyn_imp_functions)
    /\ "FUN_1" \in DOMAIN decompiled_functions
    /\ decompiled_functions["FUN_1"].code = Fallback("FUN_1")
    /\ decompiler_calls["FUN_1"] = 1

\* the second run on the same enumerator has analysed a call site of FUN_1,
\* whose text came from the decompiler once
C27_SecondRunSite ==
    /\ run = 2
    /\ pc = "done"
    /\ program.size # 32
    /\ \E site \in visited : site[1] = "FUN_1" /\ site[2] > 0
    /\ decompiler_calls["FUN_1"] = 1

-----------------------------------------------------------------------------
(* The pairs merged for the calls of the enclosing function, checked under Spec *)

Reverse(seq) == [i \in DOMAIN seq |-> seq[Len(seq) + 1 - i]]

\* the pair of one yielded substitution: a value the call does not supply is
\* the one resolved inside the enclosing function, if any
OwnPair(y, api_dll, api_name) ==
    <<IF is_literal(y.lp_lib_filename) THEN y.lp_lib_filename.value ELSE api_dll,
      IF is_literal(y.lp_proc_name) THEN y.lp_proc_name.value ELSE api_name>>

\* the pairs with a known name that the yielded substitutions give one by one
OwnPairs(yields, api_dll, api_name) ==
    {p \in {OwnPair(yields[i], api_dll, api_name) : i \in DOMAIN yields} :
        p[2] # None /\ p[2] # <<>>}

\* the pairs the loop of crawl_dynamic_imports merges for the yields
EmittedPairs(yields, api_dll, api_name) == Range(CarriedMerges(yields, api_dll, api_name))

\* C28: for a call site whose missing values are tied to formal parameters,
\* every pair merged is built from the values of one call of the enclosing
\* function and the values resolved inside that function, and the set of
\* pairs merged is the same when the calls are enumerated in reverse.
C28_AsClaimed ==
    (AtCallSite /\ ExternalParams)
        => LET Built(yields, api_dll, api_name) ==
                   /\ EmittedPairs(yields, api_dll, api_name)
                          \subseteq OwnPairs(yields, api_dll, api_name)
                   /\ EmittedPairs(Reverse(yields), api_dll, api_name)
                          = EmittedPairs(yields, api_dll, api_name)
           IN  Built(SiteYields.yields, SiteParse.api_dll, SiteParse.api_name)

\* what the loop keeps: each pair merged takes its dll from some call of the
\* enclosing function or from that function, and its name likewise, though
\* not both from the same call; with one call at most the pairs are those of
\* the statement
C28_CarriedForward ==
    (AtCallSite /\ ExternalParams)
        => LET Built(yields, api_dll, api_name) ==
                   /\ \A p \in EmittedPairs(yields, api_dll, api_name) :
                          \E i, j \in DOMAIN yields :
                              /\ p[1] = OwnPair(yields[i], api_dll, api_name)[1]
                              /\ p[2] = OwnPair(yields[j], api_dll, api_name)[2]
                   /\ OwnPairs(yields, api_dll, api_name) # {}
                          => EmittedPairs(yields, api_dll, api_name) # {}
                   /\ Len(yields) <= 1
                          => EmittedPairs(yields, api_dll, api_name)
                                 = OwnPairs(yields, api_dll, api_name)
           IN  Built(SiteYields.yields, SiteParse.api_dll, SiteParse.api_name)

\* FUN_3 calls FUN_1(hLib, "CreateFileW") on kernel32.dll and FUN_1(hLib, param_1)
\* on user32.dll: the pair (user32.dll, CreateFileW), which neither call gives,
\* is about to be merged for the call site of FUN_1
C28_PairOfTwoCalls ==
    /\ AtCallSite
    /\ ExternalParams
    /\ program.funcs["FUN_3"].body = StaleCalls
    /\ <<s_user32_dll, s_CreateFileW>>
           \in EmittedPairs(SiteYields.yields, SiteParse.api_dll, SiteParse.api_name)
                   \ OwnPairs(SiteYields.yields, SiteParse.api_dll, SiteParse.api_name)

\* the calls enumerated in reverse give another set of pairs
C28_OrderMatters ==
    /\ AtCallSite
    /\ ExternalParams
    /\ EmittedPairs(Reverse(SiteYields.yields), SiteParse.api_dll, SiteParse.api_name)
           # EmittedPairs(SiteYields.yields, SiteParse.api_dll, SiteParse.api_name)

-----------------------------------------------------------------------------
(* The external parameters of a call site whose handle and name are formal  *)
(* parameters: FUN_1(param_1, param_2) with every pairing of a handle       *)
(* expression and a name argument, after a load or after none.              *)

ParseLoads ==
    {<<>>, <<LL(s_hModule, s_param_1)>>, <<LL(s_hModule, s_param_2)>>,
     <<LL(s_hModule, Q(s_shell32_dll))>>}

ParseHandles == {s_hModule, s_param_1, s_param_2, s_field_of_param_1}

ParseNames == {Q(s_GetUserNameA), s_param_1, s_param_2}

\* FUN_3 calls FUN_1 with one argument, and then with two
ShortCall == <<LL(s_hLib, Q(s_kernel32_dll)), Call("FUN_1", <<s_hLib>>)>>
ShortThenFull == ShortCall \o <<Call("FUN_1", <<s_hLib, <<" ">> \o Q(s_CreateFileW)>>)>>

ParseCallers == {NoCaller, CallOfSite, ShortCall, ShortThenFull}

ParseSettings == {Plain, [Plain EXCEPT !.size = 64], [Plain EXCEPT !.nometa = {"FUN_1"}]}

ParsePrograms ==
    { [funcs |-> ("FUN_1" :> SiteFunction(b, h, n, <<>>))
                 @@ ("FUN_2" :> Fn(<<s_param_1, s_param_2>>, <<>>))
                 @@ ("FUN_3" :> Fn(<<s_param_1>>, c)),
       fails |-> s.fails, nometa |-> s.nometa, order |-> FunctionNames,
       size |-> s.size, thiscall |-> s.thiscall] :
        b \in ParseLoads, h \in ParseHandles, n \in ParseNames,
        c \in ParseCallers, s \in ParseSettings }

\* an enumerator constructed without a database, about to crawl
InitParse ==
    /\ program \in ParsePrograms
    /\ db_file = EmptyDict
    /\ defined_strings = {}
    /\ conv = [f \in DOMAIN program.funcs |->
                  IF f \in program.thiscall THEN "__thiscall" ELSE "__stdcall"]
    /\ api_db_arg = s_missing_json
    /\ api_db_path = None
    /\ pc = "ready"
    /\ run = 1
    /\ todo = <<>>
    /\ sites = <<>>
    /\ decompiled_functions = <<>>
    /\ decompiler_calls = [f \in DOMAIN program.funcs |-> 0]
    /\ visited = {}
    /\ first_result = EmptyDict
    /\ api_db = NotLoaded
    /\ db_reads = 0
    /\ api_dict = EmptyDict
    /\ last = NoCall
    /\ stack = <<>>
    /\ returned = NoReturn
    /\ NotClassifying
    /\ NotLocating

\* one run of crawl_dynamic_imports
NextParse ==
    \/ BeginCrawl
    \/ FixCallingConvention
    \/ EndFix
    \/ CrawlFunction
    \/ CrawlCallSite
    \/ Finish

SpecParse == InitParse /\ [][NextParse]_vars

\* the formal parameters of the enclosing function, as the loop of
\* __parse_api_params enumerates them
SiteFormals == enumerate_function_params(SiteFunctionName, decompile_function(SiteFunctionName))

\* the positions of the formal parameter the name argument is
NameFormals == {k \in DOMAIN SiteFormals : SiteFormals[k] = SiteProcName.name}

\* the role rules: never the handle and the library name together; a dll role
\* only without a dll, the name role only without a name
RolesAsNeeded(p) ==
    /\ ~(p.external_params.hModule # 0 /\ p.external_params.lpLibFileName # 0)
    /\ (p.external_params.hModule # 0 \/ p.external_params.lpLibFileName # 0)
           => p.api_dll = None
    /\ p.external_params.lpProcName # 0 => p.api_name = None

\* C29: the mapping built for a call site never holds hModule and
\* lpLibFileName together, holds one of them only if the dll was not resolved
\* locally and lpProcName only if the name was not; and whenever the name is
\* unresolved and the name argument is a formal parameter, lpProcName holds
\* that parameter's position.
C29_AsClaimed ==
    (AtCallSite /\ ~SiteParse.err)
        => LET Built(p) ==
                   /\ RolesAsNeeded(p)
                   /\ (p.api_name = None /\ NameFormals # {})
                          => p.external_params.lpProcName \in NameFormals
           IN  Built(SiteParse)

\* the formal parameter at position k is taken for a dll role: it is the
\* argument of the load found, or, where no load was found, its name occurs
\* in the handle expression
TakenForDll(p, k) ==
    /\ p.api_dll = None
    /\ IF p.lp_lib_filename # NoParam THEN SiteFormals[k] = p.lp_lib_filename.name
       ELSE Contains(Strip(SiteCall.h), SiteFormals[k])

\* what the loop keeps: the role rules, and lpProcName with the position of
\* the name's formal parameter exactly when the name is unresolved and that
\* parameter has not been taken for a dll role
C29_UnlessTaken ==
    (AtCallSite /\ ~SiteParse.err)
        => LET Built(p) ==
                   /\ RolesAsNeeded(p)
                   /\ \A k \in DOMAIN SiteFormals :
                          p.external_params.lpProcName = k
                              <=> /\ p.api_name = None
                                  /\ ~p.external_params.none
                                  /\ k \in NameFormals
                                  /\ ~TakenForDll(p, k)
           IN  Built(SiteParse)

\* GetProcAddress(*(HMODULE *)(param_1 + 0x1c), param_1) is next: param_1 is
\* recorded as hModule and lpProcName is not recorded
C29_NameRoleMissed ==
    /\ AtCallSite
    /\ SiteCall.h = s_field_of_param_1
    /\ SiteProcName.name = s_param_1
    /\ SiteParse.api_name = None
    /\ SiteParse.external_params.hModule = 1
    /\ SiteParse.external_params.lpProcName = 0

\* hModule = LoadLibraryA(param_1); GetProcAddress(hModule, param_1) is next:
\* param_1 is recorded as lpLibFileName and lpProcName is not recorded
C29_NameIsLibrary ==
    /\ AtCallSite
    /\ SiteCall.h = s_hModule
    /\ SiteProcName.name = s_param_1
    /\ SiteParse.api_name = None
    /\ SiteParse.external_params.lpLibFileName = 1
    /\ SiteParse.external_params.lpProcName = 0

\* GetProcAddress(param_1, param_2) is next: hModule and lpProcName are
\* recorded with the positions 1 and 2
C29_BothRoles ==
    /\ AtCallSite
    /\ SiteCall.h = s_param_1
    /\ SiteProcName.name = s_param_2
    /\ SiteParse.external_params.hModule = 1
    /\ SiteParse.external_params.lpProcName = 2
    /\ SiteParse.external_params.lpLibFileName = 0

-----------------------------------------------------------------------------
(* Calls of the enclosing function that pass fewer arguments than a         *)
(* recorded position, checked under SpecParse                               *)

\* the calls of the enclosing function, caller by caller
SiteCalls ==
    LET Callers(callers) ==
            Flatten([n \in DOMAIN callers |-> calls_in(SiteFunctionName, callers[n], n)])
    IN  Callers(get_calling_functions(SiteFunctionName))

\* call i passes fewer arguments than position k, a recorded one
ShortOf(i, k) == k > 0 /\ Len(SiteCalls[i].function_call_params) < k

\* some call is short of the position of a name role, of the handle role
ShortOfName ==
    \E i \in DOMAIN SiteCalls :
        \/ ShortOf(i, SiteParse.external_params.lpProcName)
        \/ ShortOf(i, SiteParse.external_params.lpLibFileName)

ShortOfHandle == \E i \in DOMAIN SiteCalls : ShortOf(i, SiteParse.external_params.hModule)

\* every call is gone through, and a call short of a role's position leaves
\* that role unresolved
ShortCallsPassedOver(yields) ==
    /\ Len(yields) = Len(SiteCalls)
    /\ \A i \in DOMAIN yields :
           /\ ShortOf(i, SiteParse.external_params.lpProcName)
                  => yields[i].lp_proc_name = NoParam
           /\ (\/ ShortOf(i, SiteParse.external_params.lpLibFileName)
               \/ ShortOf(i, SiteParse.external_params.hModule))
                  => yields[i].lp_lib_filename = NoParam

\* the step goes through every call, merges what the calls give and goes on
\* to the next call site
SiteCompleted(yields) ==
    /\ ShortCallsPassedOver(yields)
    /\ pc' = "crawl"
    /\ sites' = Tail(sites)
    /\ api_dict' = AfterMerges(MergeState,
                               CarriedMerges(yields, SiteParse.api_dll,
                                             SiteParse.api_name)).api_dict

\* C30: at a call site with external parameters, a call of the enclosing
\* function that passes fewer arguments than the recorded position of hModule,
\* lpLibFileName or lpProcName leaves that role unresolved and raises no
\* error, and the remaining calls are still gone through.
C30_AsClaimed ==
    [][ (AtCallSite /\ ExternalParams /\ (ShortOfName \/ ShortOfHandle))
            => SiteCompleted(SiteYields.yields) ]_vars

\* the same for the roles lpLibFileName and lpProcName, no call being short
\* of the handle's position
C30_NameRoles ==
    [][ (AtCallSite /\ ExternalParams /\ ShortOfName /\ ~ShortOfHandle)
            => SiteCompleted(SiteYields.yields) ]_vars

\* a call short of the handle's position ends the run with an IndexError
C30_HandleRole ==
    [][ (AtCallSite /\ ExternalParams /\ ShortOfHandle) => pc' = "IndexError" ]_vars

\* GetProcAddress(param_2, "GetUserNameA") in FUN_1, which FUN_3 calls as
\* FUN_1(hLib): the run has ended with an IndexError
C30_IndexError ==
    /\ pc = "IndexError"
    /\ program.funcs["FUN_1"].body = <<GPA(s_param_2, Q(s_GetUserNameA))>>
    /\ program.funcs["FUN_3"].body = ShortCall
    /\ api_dict = EmptyDict

\* GetProcAddress(param_1, param_2) in FUN_1, which FUN_3 calls as FUN_1(hLib)
\* and as FUN_1(hLib, "CreateFileW"): the first call gave no name, the second
\* filed CreateFileW under kernel32.dll
C30_SecondCallMerged ==
    /\ pc = "crawl"
    /\ program.funcs["FUN_1"].body = <<GPA(s_param_1, s_param_2)>>
    /\ program.funcs["FUN_3"].body = ShortThenFull
    /\ <<"FUN_1", 1>> \in visited
    /\ last.n = 1
    /\ api_dict = (s_kernel32_dll :> {s_CreateFileW})

=============================================================================
